---- MODULE Spec2Model ----
(***************************************************************************)
(* For-You subsystem of read-api (controllers/forYouController.js):        *)
(* triage recording, subreddit reputation, report generation and feed      *)
(* assembly over the Prisma store.                                         *)
(*                                                                         *)
(* Tables are sets of rows keyed by userId, as the Prisma queries see      *)
(* them.  A nullable column is a sequence of length 0 (null) or 1.         *)
(* Persona weights are in hundredths (0..100) and penalty multipliers in   *)
(* tenths (3, 5, 7, 10), so every product the code compares is an integer. *)
(***************************************************************************)
EXTENDS Integers, Sequences, FiniteSets, TLC

VARIABLES
    now,                  \* Date.now(), in clock ticks
    curatedPost,          \* table CuratedPost
    userBlockedSubreddit, \* table UserBlockedSubreddit
    forYouReport,         \* table ForYouReport
    cachedFeed,           \* column User.cachedFeed, per user id
    userPersona,          \* table UserPersona
    userSubredditStar,    \* table UserSubredditStar, per user in stored order
    userSubscription,     \* table UserSubscription, per user in stored order
    hot,                  \* what Reddit answers to GET /r/<sub>/hot
    last,                 \* the most recent request and its response
    inflight              \* the requests being handled step by step, per slot

vars == <<now, curatedPost, userBlockedSubreddit, forYouReport, cachedFeed,
          userPersona, userSubredditStar, userSubscription, hot, last,
          inflight>>

store == <<curatedPost, userBlockedSubreddit, forYouReport, cachedFeed,
           userPersona, userSubredditStar, userSubscription>>

(***************************************************************************)
(* Bounds of the model.                                                    *)
(***************************************************************************)
MaxNow == 4            \* the clock stops after this many ticks
HoursPerTick == 9      \* resolution of the clock: hours per tick
MaxBlockCount == 2     \* blockSubreddit is not called beyond this blockCount

Users == {"u1", "u2"}
Callers == {"u1"}      \* users that issue requests in the explored runs

None == <<>>
Some(x) == <<x>>

(***************************************************************************)
(* Post identifiers.  A redditPostId is a string; the code only ever looks *)
(* at whether it starts with "t3_" and at the rest, so an id is the pair   *)
(* of that flag and the rest.  The pseudo id of a subreddit dismissal      *)
(* `subreddit_dismiss_<name>_<Date.now()>` carries its name and timestamp. *)
(***************************************************************************)
PostId(base) == [kind |-> "post", t3 |-> FALSE, id |-> base, ts |-> 0]
T3(base) == [kind |-> "post", t3 |-> TRUE, id |-> base, ts |-> 0]
DismissId(subreddit, t) ==
    [kind |-> "dismiss", t3 |-> FALSE, id |-> subreddit, ts |-> t]

\* redditPostId.startsWith('t3_')
StartsWithT3(pid) == pid.kind = "post" /\ pid.t3

\* fullname.startsWith('t3_') ? fullname.slice(3) : fullname
StripT3(pid) == IF StartsWithT3(pid) THEN [pid EXCEPT !.t3 = FALSE] ELSE pid

\* redditPostId.startsWith('t3_') ? redditPostId : `t3_${redditPostId}`
Fullname(pid) == IF StartsWithT3(pid) THEN pid ELSE [pid EXCEPT !.t3 = TRUE]

\* action.toUpperCase()
ToUpperCase(action) ==
    CASE action = "saved" -> "SAVED"
      [] action = "already_read" -> "ALREADY_READ"
      [] action = "not_interested" -> "NOT_INTERESTED"
      [] OTHER -> "BOGUS"

validActions == {"saved", "already_read", "not_interested"}

(***************************************************************************)
(* Sequence helpers (Array.prototype.filter / slice / map / sort).         *)
(***************************************************************************)
Range(s) == {s[i] : i \in DOMAIN s}

RECURSIVE SelectSeqBy(_, _)
SelectSeqBy(s, keep) ==
    IF s = <<>> THEN <<>>
    ELSE IF Head(s) \in keep THEN <<Head(s)>> \o SelectSeqBy(Tail(s), keep)
    ELSE SelectSeqBy(Tail(s), keep)

\* s.slice(0, n)
Slice(s, n) == IF Len(s) <= n THEN s ELSE SubSeq(s, 1, n)

\* results.flat()
RECURSIVE Flat(_)
Flat(ss) == IF ss = <<>> THEN <<>> ELSE Head(ss) \o Flat(Tail(ss))

\* Position of the first element of s that satisfies being in set, or 0.
IndexIn(s, set) ==
    IF \E i \in DOMAIN s : s[i] \in set
    THEN CHOOSE i \in DOMAIN s : s[i] \in set /\ \A j \in 1..(i-1) : s[j] \notin set
    ELSE 0

(***************************************************************************)
(* Array.prototype.sort with the comparator (a, b) => key(b) - key(a):     *)
(* a stable sort in descending key order.  The elements carry their key in *)
(* the field `key`.                                                        *)
(***************************************************************************)
RECURSIVE InsertDesc(_, _)
InsertDesc(x, sorted) ==
    IF sorted = <<>> THEN <<x>>
    ELSE IF Head(sorted).key < x.key THEN <<x>> \o sorted
    ELSE <<Head(sorted)>> \o InsertDesc(x, Tail(sorted))

RECURSIVE SortDescFrom(_, _)
SortDescFrom(s, acc) ==
    IF s = <<>> THEN acc
    ELSE SortDescFrom(Tail(s), InsertDesc(Head(s), acc))

SortDesc(s) == SortDescFrom(s, <<>>)

(***************************************************************************)
(* getFeed, steps e2-f: subreddit reputation and the candidate list.       *)
(***************************************************************************)
NOT_INTERESTED_BLOCK == 5     \* count >= 5 blocks the subreddit
NOT_INTERESTED_PENALTY == 3   \* count >= 3 penalizes it
MAX_SUBREDDITS == 10          \* orderedSubreddits.slice(0, 10)
STARRED_BOOST == 2            \* const STARRED_BOOST = 2.0
TOP_N == 25                   \* const TOP_N = 25
MAX_RECOMMENDED == 5          \* .slice(0, 5)
STALE_HOURS == 18             \* hoursSinceLastReport > 18

(***************************************************************************)
(* What one feed assembly reads: the tables and Reddit's listings.  The    *)
(* operators of the assembly take it as the argument w, so that the same   *)
(* assembly can be evaluated on two stores that differ in one row.         *)
(***************************************************************************)
World ==
    [curatedPost |-> curatedPost,
     userBlockedSubreddit |-> userBlockedSubreddit,
     userPersona |-> userPersona,
     userSubredditStar |-> userSubredditStar,
     userSubscription |-> userSubscription,
     hot |-> hot]

\* prisma.userPersona.findUnique({ where: { userId } }): 0 or 1 row
persona(w, u) == {p \in w.userPersona : p.userId = u}

\* stars.map(s => s.subreddit) over the rows with starred: true
starredSubreddits(w, u) ==
    LET rows == w.userSubredditStar[u]
        kept == SelectSeqBy(rows, {r \in Range(rows) : r.starred})
    IN  [i \in DOMAIN kept |-> kept[i].subreddit]

\* curatedPosts.map(p => p.redditPostId), any action
curatedPostIds(w, u) ==
    {r.redditPostId : r \in {c \in w.curatedPost : c.userId = u}}

\* one entry of prisma.curatedPost.groupBy(['subreddit']) where NOT_INTERESTED
notInterestedCount(w, u, s) ==
    Cardinality({c \in w.curatedPost :
        c.userId = u /\ c.action = "NOT_INTERESTED" /\ c.subreddit = s})

notInterestedSubreddits(w, u) ==
    {c.subreddit : c \in {r \in w.curatedPost :
        r.userId = u /\ r.action = "NOT_INTERESTED"}}

blockedRecords(w, u) == {b \in w.userBlockedSubreddit : b.userId = u}

\* the threshold as count > 5
blockedSubreddits_above(w, u) ==
    {b.subreddit : b \in {r \in w.userBlockedSubreddit :
                            r.userId = u /\ r.isActive}}
    \cup {s \in {c.subreddit : c \in w.curatedPost} :
            Cardinality({c \in w.curatedPost :
                c.userId = u /\ c.action = "NOT_INTERESTED"
                /\ c.subreddit = s}) > NOT_INTERESTED_BLOCK}

\* const blockedSubreddits = new Set(): active blocks, then count >= 5
blockedSubreddits(w, u) ==
    {b.subreddit : b \in {r \in blockedRecords(w, u) : r.isActive}}
    \cup {s \in notInterestedSubreddits(w, u) :
            notInterestedCount(w, u, s) >= NOT_INTERESTED_BLOCK}

\* the thresholds as blockCount > 3 and blockCount > 2
blockPenalty_strict(blockCount) ==
    IF blockCount > 3 THEN 3 ELSE IF blockCount > 2 THEN 5 ELSE 7

\* record.blockCount >= 3 ? 0.3 : record.blockCount >= 2 ? 0.5 : 0.7
blockPenalty(blockCount) ==
    IF blockCount >= 3 THEN 3 ELSE IF blockCount >= 2 THEN 5 ELSE 7

\* const penalizedSubreddits = new Map(): subreddit -> multiplier, as a set
\* of <<subreddit, multiplier>> with at most one pair per subreddit
penalizedSubreddits(w, u) ==
    LET fromBlocks ==
            {<<b.subreddit, blockPenalty(b.blockCount)>> :
                b \in {r \in blockedRecords(w, u) :
                        ~r.isActive /\ r.blockCount >= 1}}
        fromCounts ==
            {<<s, 5>> : s \in {t \in notInterestedSubreddits(w, u) :
                /\ notInterestedCount(w, u, t) < NOT_INTERESTED_BLOCK
                /\ notInterestedCount(w, u, t) >= NOT_INTERESTED_PENALTY
                /\ ~\E e \in fromBlocks : e[1] = t}}
    IN  fromBlocks \cup fromCounts

\* the default as penalizedSubreddits.get(name) || 0
penaltyOf_zeroDefault(w, u, name) ==
    LET penalized == {<<b.subreddit, IF b.blockCount >= 3 THEN 3
                                      ELSE IF b.blockCount >= 2 THEN 5 ELSE 7>> :
                        b \in {r \in w.userBlockedSubreddit :
                            r.userId = u /\ ~r.isActive /\ r.blockCount >= 1}}
    IN  IF \E e \in penalized : e[1] = name
        THEN (CHOOSE e \in penalized : e[1] = name)[2]
        ELSE 0

\* penalizedSubreddits.get(name) || 1
penaltyOf(w, u, name) ==
    IF \E e \in penalizedSubreddits(w, u) : e[1] = name
    THEN (CHOOSE e \in penalizedSubreddits(w, u) : e[1] = name)[2]
    ELSE 10

\* [...persona.subredditAffinities].sort((a, b) => weightB - weightA)
sortedAffinities(w, u) ==
    IF persona(w, u) = {} THEN <<>>
    ELSE LET aff == (CHOOSE p \in persona(w, u) : TRUE).subredditAffinities
             keyed == [i \in DOMAIN aff |->
                         [name |-> aff[i].name, weight |-> aff[i].weight,
                          key |-> aff[i].weight * penaltyOf(w, u, aff[i].name)]]
         IN  SortDesc(keyed)

\* the three loops: push {name, starred} unless already in subredditSet or blocked
RECURSIVE pushSubreddits(_, _, _, _)
pushSubreddits(names, starred, blocked, ordered) ==
    IF names = <<>> THEN ordered
    ELSE LET sub == Head(names)
             seen == {ordered[i].name : i \in DOMAIN ordered}
         IN  pushSubreddits(Tail(names), starred, blocked,
                IF sub \notin seen /\ sub \notin blocked
                THEN Append(ordered, [name |-> sub, starred |-> starred])
                ELSE ordered)

orderedSubreddits(w, u) ==
    LET blocked == blockedSubreddits(w, u)
        sorted == sortedAffinities(w, u)
        s1 == pushSubreddits(starredSubreddits(w, u), TRUE, blocked, <<>>)
        s2 == pushSubreddits([i \in DOMAIN sorted |-> sorted[i].name],
                             FALSE, blocked, s1)
    IN  pushSubreddits(w.userSubscription[u], FALSE, blocked, s2)

\* the list without the slice(0, 10)
subredditsToFetch_uncapped(w, u) == orderedSubreddits(w, u)

subredditsToFetch(w, u) == Slice(orderedSubreddits(w, u), MAX_SUBREDDITS)

(***************************************************************************)
(* getFeed, steps g-j: fetch, filter, rank, respond.                       *)
(* hot[sub] is Reddit's answer for /r/<sub>/hot: status "ok" with a        *)
(* listing, "notok" (response.ok false) or "throw" (fetch rejects).        *)
(***************************************************************************)
\* one element of fetchPromises: the tagged posts of a subreddit, [] on failure
fetchSubreddit(w, entry) ==
    LET answer == w.hot[entry.name]
        t3s == SelectSeqBy(answer.children,
                   {c \in Range(answer.children) : c.kind = "t3"})
        sfw == SelectSeqBy(t3s, {c \in Range(t3s) : ~c.over_18})
    IN  IF answer.status # "ok" THEN <<>>
        ELSE [i \in DOMAIN sfw |->
                [post |-> sfw[i], starred |-> entry.starred,
                 fetchedFrom |-> entry.name]]

\* (await Promise.all(fetchPromises)).flat() over the entries subs
fetchAll(w, subs) ==
    Flat([i \in DOMAIN subs |-> fetchSubreddit(w, subs[i])])

\* const allPosts = results.flat()
allPosts(w, u) == fetchAll(w, subredditsToFetch(w, u))

\* post.name || `t3_${post.id}`, then the t3_ prefix stripped
postIdOf(post) ==
    LET fullname == IF post.name # None THEN post.name[1] ELSE T3(post.id)
    IN  StripT3(fullname)

\* allPosts.filter(post => !curatedPostIds.has(postId))
excludeCurated(all, curated) ==
    SelectSeqBy(all, {e \in Range(all) : postIdOf(e.post) \notin curated})

\* const filteredPosts = allPosts.filter(...)
filteredPosts(w, u) == excludeCurated(allPosts(w, u), curatedPostIds(w, u))

\* the boost on the wrong branch: (a._starred ? 1 : STARRED_BOOST)
boostedScore_swapped(e) ==
    e.post.score * (IF e.starred THEN 1 ELSE STARRED_BOOST)

\* (a.score || 0) * (a._starred ? STARRED_BOOST : 1)
boostedScore(e) == e.post.score * (IF e.starred THEN STARRED_BOOST ELSE 1)

\* the sort key of each candidate: scoreA / scoreB of the comparator
withBoostedScore(f) ==
    [i \in DOMAIN f |->
        [post |-> f[i].post, starred |-> f[i].starred,
         fetchedFrom |-> f[i].fetchedFrom, key |-> boostedScore(f[i])]]

\* filteredPosts.sort((a, b) => scoreB - scoreA)
rankedPosts(w, u) == SortDesc(withBoostedScore(filteredPosts(w, u)))

\* one element of filteredPosts.slice(0, TOP_N).map(...)
feedPost(e) ==
    [id |-> e.post.id, redditPostId |-> postIdOf(e.post),
     subreddit |-> e.post.subreddit, score |-> e.post.score]

\* filteredPosts.slice(0, TOP_N).map(post => ({ ... }))
topPosts(ranked) ==
    [i \in 1..(IF Len(ranked) < TOP_N THEN Len(ranked) ELSE TOP_N) |->
        feedPost(ranked[i])]

\* persona.subredditAffinities, [] without a persona
personaAffinities(w, u) ==
    IF persona(w, u) = {} THEN <<>>
    ELSE (CHOOSE p \in persona(w, u) : TRUE).subredditAffinities

affinityNames(affinities) == [i \in DOMAIN affinities |-> affinities[i].name]

\* persona.subredditAffinities.filter(...).slice(0, 5).map(a => a.name)
recommendedSubreddits(affinities, feedSubreddits, starredSet) ==
    affinityNames(Slice(
        SelectSeqBy(affinities, {a \in Range(affinities) :
            a.name \notin feedSubreddits /\ a.name \notin starredSet}),
        MAX_RECOMMENDED))

\* const response = { posts: topPosts, recommendedSubreddits, meta }
feedResponse(w, u, subs, all, filtered, posts) ==
    [posts |-> posts,
     recommendedSubreddits |->
        recommendedSubreddits(personaAffinities(w, u),
            {posts[i].subreddit : i \in DOMAIN posts},
            Range(starredSubreddits(w, u))),
     meta |-> [totalFetched |-> Len(all),
               totalFiltered |-> Len(filtered),
               subredditsFetched |-> Len(subs),
               starredCount |-> Len(starredSubreddits(w, u))]]

\* steps e-j of getFeed on what was read: the store w and the ids of the
\* curated posts
assembleFeedWith(w, u, curatedIds) ==
    LET subs == subredditsToFetch(w, u)
        all == fetchAll(w, subs)
        filtered == excludeCurated(all, curatedIds)
    IN  feedResponse(w, u, subs, all, filtered,
            topPosts(SortDesc(withBoostedScore(filtered))))

\* steps b-j of getFeed on the store w
assembleFeed(w, u) == assembleFeedWith(w, u, curatedPostIds(w, u))

(***************************************************************************)
(* The record of the most recent request: what was asked and what the      *)
(* handler answered (HTTP status and the fields of the JSON body).         *)
(***************************************************************************)
Idle ==
    [op |-> "none", user |-> "", status |-> 0, redditPostId |-> None,
     action |-> "", subreddit |-> "", existing |-> "", cacheHit |-> FALSE,
     wasCached |-> FALSE, reset |-> FALSE, deleted |-> 0, deactivated |-> 0,
     count |-> 0, blocked |-> FALSE, feed |-> None, upstream |-> None,
     saved |-> <<>>, llm |-> "", fetches |-> 0]

Request(op, u) == [Idle EXCEPT !.op = op, !.user = u]

(***************************************************************************)
(* A request in flight: the handler's position (`pc`, the await it is at)  *)
(* and its local variables.  Up to two requests of the caller are handled  *)
(* at a time, one per slot.  The handlers above run a request from start   *)
(* to end in one step; the step-wise handlers below suspend at each await  *)
(* that touches the store.                                                 *)
(***************************************************************************)
Slots == {"r1", "r2"}

IdleRequest ==
    [op |-> "none", user |-> "", pc |-> "idle", seq |-> 0, status |-> 0,
     redditPostId |-> None, action |-> "", blocked |-> FALSE,
     refresh |-> FALSE, llm |-> "", byId |-> "", save |-> "",
     existing |-> {}, curatedIds |-> {}, counted |-> {}, blocks |-> {},
     todo |-> {}, savedPosts |-> {}, count |-> 0,
     cacheHit |-> FALSE, feed |-> None]

NoRequests == [r \in Slots |-> IdleRequest]

\* the handler without the invalidating update
invalidateFeedCache_skipped(u) == cachedFeed

\* prisma.user.update({ where: { id }, data: { cachedFeed: null } })
invalidateFeedCache(u) == [cachedFeed EXCEPT ![u] = None]

\* prisma.curatedPost.count({ where: { userId, action: 'SAVED' } })
savedCount(table, u) ==
    Cardinality({c \in table : c.userId = u /\ c.action = "SAVED"})

(***************************************************************************)
(* Reddit's GET /by_id/<fullname>: the post with that id, if Reddit has    *)
(* one in its listings.                                                    *)
(***************************************************************************)
postsOnReddit == UNION {Range(hot[s].children) : s \in DOMAIN hot}

byIdChildren(fullname) ==
    {p \in postsOnReddit : fullname.kind = "post" /\ p.id = fullname.id}

(***************************************************************************)
(* POST /api/foryou/action                                                 *)
(*   byId: how the by_id fetch ends ("ok", "notok", "throw")               *)
(*   save: how the /api/save fetch ends ("ok", "notok", "throw")           *)
(***************************************************************************)
recordActionWrite(u, redditPostId, action, byId) ==
    LET postData == {c \in curatedPost :
                        c.userId = u /\ c.redditPostId = redditPostId}
        children == byIdChildren(Fullname(redditPostId))
    IN  IF postData = {}
        THEN IF byId = "ok" /\ children # {}
             THEN curatedPost \cup
                    {[userId |-> u, redditPostId |-> redditPostId,
                      subreddit |-> (CHOOSE p \in children : TRUE).subreddit,
                      action |-> ToUpperCase(action)]}
             ELSE curatedPost
        ELSE (curatedPost \ postData) \cup
                {[c EXCEPT !.action = ToUpperCase(action)] : c \in postData}

recordAction(u, redditPostId, action, byId, save) ==
    LET postData == {c \in curatedPost :
                        c.userId = u /\ c.redditPostId = redditPostId}
        req == [Request("recordAction", u) EXCEPT
                    !.wasCached = (cachedFeed[u] # None),
                    !.redditPostId = Some(redditPostId),
                    !.action = ToUpperCase(action),
                    !.existing = IF postData = {} THEN ""
                                 ELSE (CHOOSE c \in postData : TRUE).action]
        written == recordActionWrite(u, redditPostId, action, byId)
    IN  /\ UNCHANGED <<inflight, now, userBlockedSubreddit, forYouReport, userPersona,
                       userSubredditStar, userSubscription, hot>>
        /\ IF action \notin validActions
           THEN /\ last' = [req EXCEPT !.status = 400]
                /\ UNCHANGED <<curatedPost, cachedFeed>>
           ELSE IF postData = {} /\ byId = "throw"
           THEN /\ last' = [req EXCEPT !.status = 500]
                /\ UNCHANGED <<curatedPost, cachedFeed>>
           ELSE IF action = "saved" /\ save = "throw"
           THEN /\ curatedPost' = written
                /\ last' = [req EXCEPT !.status = 500]
                /\ UNCHANGED cachedFeed
           ELSE /\ curatedPost' = written
                /\ cachedFeed' = invalidateFeedCache(u)
                /\ last' = [req EXCEPT !.status = 200,
                                       !.count = savedCount(written, u)]

(***************************************************************************)
(* POST /api/foryou/subreddit-not-interested                               *)
(***************************************************************************)
subredditNotInterested(u, subreddit) ==
    LET req == [Request("subredditNotInterested", u) EXCEPT
                    !.subreddit = subreddit]
        id == DismissId(subreddit, now)
        created == curatedPost \cup
                    {[userId |-> u, redditPostId |-> id,
                      subreddit |-> subreddit, action |-> "NOT_INTERESTED"]}
        count == Cardinality({c \in created :
                    /\ c.userId = u
                    /\ c.subreddit = subreddit
                    /\ c.action = "NOT_INTERESTED"})
    IN  /\ UNCHANGED <<inflight, now, userBlockedSubreddit, forYouReport, cachedFeed,
                       userPersona, userSubredditStar, userSubscription, hot>>
        /\ IF subreddit = ""
           THEN /\ last' = [req EXCEPT !.status = 400]
                /\ UNCHANGED curatedPost
           ELSE IF \E c \in curatedPost : c.userId = u /\ c.redditPostId = id
           THEN \* unique constraint (userId, redditPostId): create throws
                /\ last' = [req EXCEPT !.status = 500]
                /\ UNCHANGED curatedPost
           ELSE /\ curatedPost' = created
                /\ last' = [req EXCEPT
                                !.status = 200, !.count = count,
                                !.blocked = (count >= NOT_INTERESTED_BLOCK)]

(***************************************************************************)
(* POST /api/foryou/subreddit/block                                        *)
(***************************************************************************)
\* the unblock update as data: { isActive: false, blockCount: 0 }
blockRecord_unblockClears(existing, u, subreddit, blocked) ==
    IF blocked = FALSE
    THEN {[b EXCEPT !.isActive = FALSE, !.blockCount = 0] : b \in existing}
    ELSE IF existing # {}
    THEN {[b EXCEPT !.isActive = TRUE, !.blockCount = b.blockCount + 1]
            : b \in existing}
    ELSE {[userId |-> u, subreddit |-> subreddit,
           isActive |-> TRUE, blockCount |-> 1]}

\* `record` after the if (blocked === false) / else of blockSubreddit: the
\* updated or created row, or nothing for an unblock without a row
blockRecord(existing, u, subreddit, blocked) ==
    IF blocked = FALSE
    THEN {[b EXCEPT !.isActive = FALSE] : b \in existing}
    ELSE IF existing # {}
    THEN {[b EXCEPT !.isActive = TRUE, !.blockCount = b.blockCount + 1]
            : b \in existing}
    ELSE {[userId |-> u, subreddit |-> subreddit,
           isActive |-> TRUE, blockCount |-> 1]}

blockSubreddit(u, subreddit, blocked) ==
    LET req == [Request("blockSubreddit", u) EXCEPT !.subreddit = subreddit]
        existing == {b \in userBlockedSubreddit :
                        b.userId = u /\ b.subreddit = subreddit}
        record == blockRecord(existing, u, subreddit, blocked)
    IN  /\ \A b \in existing : blocked => b.blockCount < MaxBlockCount
        /\ UNCHANGED <<inflight, now, curatedPost, forYouReport, cachedFeed,
                       userPersona, userSubredditStar, userSubscription, hot>>
        /\ IF subreddit = ""
           THEN /\ last' = [req EXCEPT !.status = 400]
                /\ UNCHANGED userBlockedSubreddit
           ELSE /\ userBlockedSubreddit' =
                        (userBlockedSubreddit \ existing) \cup record
                /\ last' = [req EXCEPT
                                !.status = 200,
                                !.blocked = (blocked # FALSE),
                                !.count = IF record = {} THEN 0
                                          ELSE (CHOOSE b \in record : TRUE).blockCount]

(***************************************************************************)
(* POST /api/foryou/report/generate                                        *)
(*   llm: "unconfigured" (no OPENAI_API_KEY), "ok", "empty" (no content in *)
(*        the completion) or "throw" (the OpenAI call rejects)             *)
(***************************************************************************)
\* the comparison as hoursSinceLastReport >= 18
reportIsStale_inclusive(u) ==
    \E r \in forYouReport :
        r.userId = u /\ (now - r.generatedAt) * HoursPerTick >= STALE_HOURS

\* hoursSinceLastReport > 18 for the existing report of the user
reportIsStale(u) ==
    \E r \in forYouReport :
        r.userId = u /\ (now - r.generatedAt) * HoursPerTick > STALE_HOURS

\* prisma.curatedPost.deleteMany({ userId, action in [ALREADY_READ, NOT_INTERESTED] })
deleteSkippedPosts(u) ==
    curatedPost \ {c \in curatedPost :
        c.userId = u /\ c.action \in {"ALREADY_READ", "NOT_INTERESTED"}}

\* the update as data: { isActive: false, blockCount: 0 }
deactivateBlocks_clearCount(u) ==
    {IF b.userId = u /\ b.isActive
     THEN [b EXCEPT !.isActive = FALSE, !.blockCount = 0] ELSE b
        : b \in userBlockedSubreddit}

\* prisma.userBlockedSubreddit.updateMany({ userId, isActive: true } -> isActive: false)
deactivateBlocks(u) ==
    {IF b.userId = u /\ b.isActive THEN [b EXCEPT !.isActive = FALSE] ELSE b
        : b \in userBlockedSubreddit}

\* prisma.curatedPost.updateMany({ userId, action: SAVED } -> ALREADY_READ)
markSavedAsRead(table, u) ==
    {IF c.userId = u /\ c.action = "SAVED"
     THEN [c EXCEPT !.action = "ALREADY_READ"] ELSE c : c \in table}

\* the write as prisma.forYouReport.create: the previous report stays
upsertReport_create(u, postCount) ==
    forYouReport
    \cup {[userId |-> u, postCount |-> postCount, generatedAt |-> now]}

\* prisma.forYouReport.upsert({ where: { userId }, ... })
upsertReport(u, postCount) ==
    {r \in forYouReport : r.userId # u}
    \cup {[userId |-> u, postCount |-> postCount, generatedAt |-> now]}

\* the handler without the savedPosts.length === 0 return
generateReportStatus_noEmptyCheck(savedPosts, llm) ==
    IF llm \in {"empty", "throw"} THEN 500 ELSE 200

\* the status the handler answers with: 400 without saved posts, 500 when
\* the completion is empty or the OpenAI call throws, else 200
generateReportStatus(savedPosts, llm) ==
    IF savedPosts = {} THEN 400
    ELSE IF llm \in {"empty", "throw"} THEN 500
    ELSE 200

generateReport(u, llm) ==
    LET stale == reportIsStale(u)
        posts == IF stale THEN deleteSkippedPosts(u) ELSE curatedPost
        blocks == IF stale THEN deactivateBlocks(u) ELSE userBlockedSubreddit
        savedPosts == {c \in posts : c.userId = u /\ c.action = "SAVED"}
        status == generateReportStatus(savedPosts, llm)
        req == [Request("generateReport", u) EXCEPT
                    !.wasCached = (cachedFeed[u] # None),
                    !.reset = stale,
                    !.deleted = Cardinality(curatedPost \ posts),
                    !.deactivated = Cardinality(userBlockedSubreddit \ blocks),
                    !.llm = llm,
                    !.status = status]
    IN  /\ UNCHANGED <<inflight, now, userPersona, userSubredditStar, userSubscription,
                       hot>>
        /\ userBlockedSubreddit' = blocks
        /\ IF status # 200
           THEN /\ curatedPost' = posts
                /\ last' = req
                /\ UNCHANGED <<forYouReport, cachedFeed>>
           ELSE /\ forYouReport' = upsertReport(u, Cardinality(savedPosts))
                /\ curatedPost' = markSavedAsRead(posts, u)
                /\ cachedFeed' = invalidateFeedCache(u)
                /\ last' = [req EXCEPT !.count = Cardinality(savedPosts)]

(***************************************************************************)
(* GET /api/foryou/feed                                                    *)
(***************************************************************************)
\* cache miss: store the response in User.cachedFeed and answer it
\* the assembly answered without the prisma.user.update of cachedFeed
getFeedMiss_uncached(u, response) ==
    /\ UNCHANGED cachedFeed
    /\ last' = [Request("getFeed", u) EXCEPT
                    !.status = 200, !.feed = Some(response),
                    !.fetches = response.meta.subredditsFetched]

\* `fetches` is the number of requests made to Reddit: one per entry of
\* subredditsToFetch
getFeedMiss(u, response) ==
    /\ cachedFeed' = [cachedFeed EXCEPT ![u] = Some(response)]
    /\ last' = [Request("getFeed", u) EXCEPT
                    !.status = 200, !.feed = Some(response),
                    !.fetches = response.meta.subredditsFetched]

getFeed(u, refresh) ==
    /\ UNCHANGED <<inflight, now, curatedPost, userBlockedSubreddit, forYouReport,
                   userPersona, userSubredditStar, userSubscription, hot>>
    /\ IF ~refresh /\ cachedFeed[u] # None
       THEN /\ last' = [Request("getFeed", u) EXCEPT
                            !.status = 200, !.cacheHit = TRUE,
                            !.feed = cachedFeed[u]]
            /\ UNCHANGED cachedFeed
       ELSE getFeedMiss(u, assembleFeed(World, u))

(***************************************************************************)
(* POST /api/foryou/persona/refresh                                        *)
(*   saved: Reddit's answer to GET /user/<name>/saved?limit=50: status     *)
(*          "ok" with the subreddits of the saved posts in order, "notok"  *)
(*          or "throw"                                                     *)
(*   llm:   the summarization service: "unconfigured" (no OPENAI_API_KEY), *)
(*          "throw", "empty" (no content), "malformed" (JSON.parse throws) *)
(*          or "json" with the parsed object                               *)
(* A JSON value is [type, num, str]: type "number" with num in hundredths, *)
(* "string" with str, "boolean" with num 0 or 100, "null", or "missing"    *)
(* for an absent property.                                                 *)
(***************************************************************************)
JsonNumber(n) == [type |-> "number", num |-> n, str |-> ""]
JsonString(t) == [type |-> "string", num |-> 0, str |-> t]
JsonBoolean(b) ==
    [type |-> "boolean", num |-> IF b THEN 100 ELSE 0, str |-> ""]
JsonNull == [type |-> "null", num |-> 0, str |-> ""]
JsonMissing == [type |-> "missing", num |-> 0, str |-> ""]

NaN == [nan |-> TRUE, num |-> 0]
Num(n) == [nan |-> FALSE, num |-> n]

\* the strings the model draws that parse as a number, in hundredths
NumericStrings == {<<"0.7", 70>>, <<"", 0>>, <<"1.7", 170>>}

\* Number(v)
ToNumber(v) ==
    CASE v.type = "number" -> Num(v.num)
      [] v.type = "boolean" -> Num(v.num)
      [] v.type = "null" -> Num(0)
      [] v.type = "string" ->
            IF \E e \in NumericStrings : e[1] = v.str
            THEN Num((CHOOSE e \in NumericStrings : e[1] = v.str)[2])
            ELSE NaN
      [] OTHER -> NaN

\* Math.min(1, Math.max(0, Number(a.weight) || 0.5))
sanitizeWeight(v) ==
    LET n == ToNumber(v)
        orHalf == IF n.nan \/ n.num = 0 THEN 50 ELSE n.num
        atLeast0 == IF orHalf < 0 THEN 0 ELSE orHalf
    IN  IF atLeast0 > 100 THEN 100 ELSE atLeast0

\* the names the model draws that start with "r/", and the rest of each
LeadingR == {<<"r/politics", "politics">>, <<"r/r/rust", "r/rust">>}

\* String(a.name || '').replace(/^r\//, '')
sanitizeName(v) ==
    LET text == IF v.type = "string" THEN v.str ELSE ""
    IN  IF \E e \in LeadingR : e[1] = text
        THEN (CHOOSE e \in LeadingR : e[1] = text)[2]
        ELSE text

\* parsed.subredditAffinities.map(a => ({ name, weight }))
sanitizeAffinities(list) ==
    [i \in DOMAIN list |->
        [name |-> sanitizeName(list[i].name),
         weight |-> sanitizeWeight(list[i].weight)]]

\* Array.isArray(x) ? x.slice(0, n) : []   (a non-array is None)
arrayOrEmpty(x, n) == IF x = None THEN <<>> ELSE Slice(x[1], n)

MAX_ANALYZED == 30     \* posts.slice(0, 30)
MAX_KEYWORDS == 10     \* parsed.keywords.slice(0, 10)
MAX_TOPICS == 5        \* parsed.topics.slice(0, 5)
MAX_MOCK_AFFINITIES == 10  \* .slice(0, 10) of the histogram
FULL_WEIGHT_COUNT == 5 \* Math.min(1, count / 5)

\* the keys of subredditCounts in insertion order
RECURSIVE firstSeen(_, _)
firstSeen(posts, acc) ==
    IF posts = <<>> THEN acc
    ELSE firstSeen(Tail(posts),
            IF Head(posts) \in Range(acc) THEN acc ELSE Append(acc, Head(posts)))

\* Object.entries(subredditCounts).sort((a, b) => b[1] - a[1])
subredditHistogram(posts) ==
    LET names == firstSeen(posts, <<>>)
    IN  SortDesc([i \in DOMAIN names |->
            [name |-> names[i],
             key |-> Cardinality({k \in DOMAIN posts : posts[k] = names[i]})]])

\* the weight as count / 5, without Math.min(1, ...)
mockAffinities_uncapped(posts) ==
    LET top == Slice(subredditHistogram(posts), MAX_MOCK_AFFINITIES)
    IN  [i \in DOMAIN top |->
            [name |-> top[i].name,
             weight |-> (top[i].key * 100) \div FULL_WEIGHT_COUNT]]

\* .slice(0, 10).map(([name, count]) => ({ name, weight: Math.min(1, count / 5) }))
mockAffinities(posts) ==
    LET top == Slice(subredditHistogram(posts), MAX_MOCK_AFFINITIES)
    IN  [i \in DOMAIN top |->
            [name |-> top[i].name,
             weight |-> IF top[i].key >= FULL_WEIGHT_COUNT THEN 100
                        ELSE (top[i].key * 100) \div FULL_WEIGHT_COUNT]]

\* prisma.userPersona.upsert({ where: { userId }, update, create })
upsertPersona(u, row) ==
    {p \in userPersona : p.userId # u} \cup {[row EXCEPT !.userId = u]}

refreshPersonaStatus(saved, llm) ==
    IF saved.status = "throw" THEN 500
    ELSE IF saved.status = "notok" THEN 502
    ELSE IF saved.posts = <<>> THEN 400
    ELSE IF llm.kind = "unconfigured" THEN 200
    ELSE IF llm.kind \in {"throw", "empty", "malformed"} THEN 500
    ELSE 200

refreshPersona(u, saved, llm) ==
    LET postsToAnalyze == Slice(saved.posts, MAX_ANALYZED)
        status == refreshPersonaStatus(saved, llm)
        mockPersona ==
            [userId |-> u, keywords |-> <<"reddit", "saved posts">>,
             topics |-> <<"General Interest">>,
             subredditAffinities |-> mockAffinities(postsToAnalyze),
             contentPreferences |-> <<"discussions">>,
             analyzedPostCount |-> Len(postsToAnalyze)]
        personaData ==
            [userId |-> u,
             keywords |-> arrayOrEmpty(llm.parsed.keywords, MAX_KEYWORDS),
             topics |-> arrayOrEmpty(llm.parsed.topics, MAX_TOPICS),
             subredditAffinities |->
                IF llm.parsed.subredditAffinities = None THEN <<>>
                ELSE sanitizeAffinities(llm.parsed.subredditAffinities[1]),
             contentPreferences |->
                IF llm.parsed.contentPreferences = None THEN <<>>
                ELSE llm.parsed.contentPreferences[1],
             analyzedPostCount |-> Len(postsToAnalyze)]
        req == [Request("refreshPersona", u) EXCEPT
                    !.status = status, !.saved = saved.posts,
                    !.llm = llm.kind]
    IN  /\ UNCHANGED <<inflight, now, curatedPost, userBlockedSubreddit, forYouReport,
                       cachedFeed, userSubredditStar, userSubscription, hot>>
        /\ IF status # 200
           THEN /\ last' = req
                /\ UNCHANGED userPersona
           ELSE IF llm.kind = "unconfigured"
           THEN /\ userPersona' = upsertPersona(u, mockPersona)
                /\ last' = [req EXCEPT !.count = Len(postsToAnalyze)]
           ELSE /\ userPersona' = upsertPersona(u, personaData)
                /\ last' = [req EXCEPT
                                !.count = Len(postsToAnalyze),
                                !.upstream = llm.parsed.subredditAffinities]

(***************************************************************************)
(* Time passes between requests.                                           *)
(***************************************************************************)
Tick ==
    /\ now < MaxNow
    /\ now' = now + 1
    /\ last' = Idle
    /\ UNCHANGED <<store, hot, inflight>>

(***************************************************************************)
(* The explored store.  u1 issues the requests; u2 is a second account     *)
(* whose rows are in the same tables.                                      *)
(***************************************************************************)
Post(id, subreddit, score) ==
    [kind |-> "t3", id |-> id, name |-> Some(T3(id)), subreddit |-> subreddit,
     score |-> score, over_18 |-> FALSE]

Listing(children) == [status |-> "ok", children |-> children]
Failing(status) == [status |-> status, children |-> <<>>]

Affinity(name, weight) == [name |-> name, weight |-> weight]

PersonaRow(u, affinities, analyzed) ==
    [userId |-> u, keywords |-> <<"reddit", "saved posts">>,
     topics |-> <<"General Interest">>, subredditAffinities |-> affinities,
     contentPreferences |-> <<"discussions">>, analyzedPostCount |-> analyzed]
Star(subreddit, starred) == [subreddit |-> subreddit, starred |-> starred]

RequestPostIds == {PostId("p1")}
RequestActions == validActions \cup {"bogus"}
RequestSubreddits == {"politics"}
FetchOutcomes == {"ok", "notok", "throw"}
LlmOutcomes == {"unconfigured", "ok", "empty", "throw"}

\* the by_id fetch is made only for a valid action on a post without a record
byIdOutcomes(u, redditPostId, action) ==
    IF /\ action \in validActions
       /\ ~\E c \in curatedPost : c.userId = u /\ c.redditPostId = redditPostId
    THEN FetchOutcomes
    ELSE {"ok"}

\* the /api/save fetch is made only for the action 'saved'
saveOutcomes(action) == IF action = "saved" THEN FetchOutcomes ELSE {"ok"}

Init ==
    /\ now = 0
    /\ curatedPost =
        {[userId |-> "u2", redditPostId |-> PostId("p1"),
          subreddit |-> "politics", action |-> "NOT_INTERESTED"],
         [userId |-> "u2", redditPostId |-> PostId("p2"),
          subreddit |-> "rust", action |-> "SAVED"]}
    /\ userBlockedSubreddit =
        {[userId |-> "u2", subreddit |-> "politics", isActive |-> TRUE,
          blockCount |-> 2]}
    /\ forYouReport = {[userId |-> "u2", postCount |-> 1, generatedAt |-> 0]}
    /\ cachedFeed = [u \in Users |->
            IF u = "u2"
            THEN Some([posts |-> <<>>, recommendedSubreddits |-> <<"rust">>,
                       meta |-> [totalFetched |-> 0, totalFiltered |-> 0,
                                 subredditsFetched |-> 0, starredCount |-> 0]])
            ELSE None]
    /\ userPersona =
        {PersonaRow("u1", <<Affinity("politics", 95), Affinity("rust", 50)>>, 5),
         PersonaRow("u2", <<Affinity("rust", 80)>>, 4)}
    /\ userSubredditStar = [u \in Users |->
            IF u = "u1" THEN <<Star("rust", TRUE)>> ELSE <<>>]
    /\ userSubscription = [u \in Users |->
            IF u = "u1" THEN <<"news">> ELSE <<>>]
    /\ hot = [s \in {"politics", "rust", "news"} |->
            CASE s = "politics" -> Listing(<<Post("p1", "politics", 5)>>)
              [] s = "rust" -> Listing(<<Post("p2", "rust", 5)>>)
              [] OTHER -> Failing("notok")]
    /\ last = Idle
    /\ inflight = NoRequests

Next ==
    \/ \E u \in Callers, p \in RequestPostIds, a \in RequestActions :
         \E byId \in byIdOutcomes(u, p, a), save \in saveOutcomes(a) :
                recordAction(u, p, a, byId, save)
    \/ \E u \in Callers, s \in RequestSubreddits \cup {""} :
            subredditNotInterested(u, s)
    \/ \E u \in Callers, s \in RequestSubreddits \cup {""}, b \in BOOLEAN :
            blockSubreddit(u, s, b)
    \/ \E u \in Callers, llm \in LlmOutcomes : generateReport(u, llm)
    \/ \E u \in Callers, refresh \in BOOLEAN : getFeed(u, refresh)
    \/ Tick

Spec == Init /\ [][Next]_vars

(***************************************************************************)
(* Feed assembly on its own: getFeed applied to the stores a user can have *)
(* built up with toggleStar, syncSubscriptions, refreshPersona,            *)
(* blockSubreddit, subredditNotInterested and recordAction, against the    *)
(* listings Reddit can answer with.                                        *)
(***************************************************************************)
StarChoices ==
    {<<>>,
     <<Star("politics", TRUE)>>,
     <<Star("rust", TRUE), Star("politics", TRUE)>>,
     <<Star("politics", FALSE), Star("rust", TRUE)>>}

AffinityChoices ==
    {<<Affinity("politics", 95), Affinity("rust", 50)>>,
     <<Affinity("rust", 50), Affinity("politics", 95)>>,
     <<Affinity("rust", 50), Affinity("politics", 0)>>,
     <<Affinity("news", 55), Affinity("politics", 60), Affinity("rust", 50)>>}

\* subreddits that appear only in a long subscription list
QuietSubreddits ==
    {"sub1", "sub2", "sub3", "sub4", "sub5", "sub6", "sub7", "sub8", "sub9"}

ManySubscriptions ==
    <<"sub1", "sub2", "sub3", "sub4", "sub5", "sub6", "sub7", "sub8", "sub9",
      "news", "politics", "rust">>

SubscriptionChoices == {<<>>, <<"news", "politics">>, ManySubscriptions}

BlockChoices ==
    {{}} \cup
    {{[userId |-> "u1", subreddit |-> "politics", isActive |-> a,
       blockCount |-> n]} : a \in BOOLEAN, n \in {1, 2, 3}}

\* the rows of n subreddit-level dismissals of r/politics
DismissedTimes(n) ==
    {[userId |-> "u1", redditPostId |-> DismissId("politics", t),
      subreddit |-> "politics", action |-> "NOT_INTERESTED"] :
        t \in 0..(n - 1)}

DismissCounts == {0, 3, 4, 5}

\* what the user has triaged of the posts in the listings
TriageChoices ==
    {{}} \cup
    {{[userId |-> "u1", redditPostId |-> PostId("p1"),
       subreddit |-> "politics", action |-> a]} :
        a \in {"SAVED", "NOT_INTERESTED"}}
    \cup
    \* recordAction stores the redditPostId as sent: here 't3_p1'
    {{[userId |-> "u1", redditPostId |-> T3("p1"),
       subreddit |-> "politics", action |-> "SAVED"]}}

Scores == {0, 5}

Nsfw(post) == [post EXCEPT !.over_18 = TRUE]

HotChoices ==
    {[s \in {"politics", "rust", "news"} \cup QuietSubreddits |->
        CASE s \in QuietSubreddits -> Listing(<<>>)
          [] s = "politics" ->
                Listing(<<Nsfw(Post("p3", "politics", 9)),
                          Post("p1", "politics", a)>>)
          [] s = "rust" ->
                IF rustOk THEN Listing(<<Post("p2", "rust", b)>>)
                ELSE Failing("throw")
          [] OTHER -> Listing(<<Post("p4", "news", 5)>>)]
        : a \in Scores, b \in Scores, rustOk \in BOOLEAN}

InitFeed ==
    /\ now = MaxNow
    /\ \E triaged \in TriageChoices, n \in DismissCounts :
         curatedPost =
            triaged \cup DismissedTimes(n) \cup
            {[userId |-> "u2", redditPostId |-> PostId("p2"),
              subreddit |-> "rust", action |-> "SAVED"]}
    /\ \E blocks \in BlockChoices :
         userBlockedSubreddit =
            blocks \cup
            {[userId |-> "u2", subreddit |-> "rust", isActive |-> TRUE,
              blockCount |-> 1]}
    /\ forYouReport = {}
    /\ cachedFeed = [u \in Users |-> None]
    /\ \E aff \in AffinityChoices, withPersona \in BOOLEAN :
         userPersona =
            IF withPersona THEN {PersonaRow("u1", aff, 5)}
            ELSE {PersonaRow("u2", aff, 5)}
    /\ \E stars \in StarChoices :
         userSubredditStar = [u \in Users |->
            IF u = "u1" THEN stars ELSE <<Star("news", TRUE)>>]
    /\ \E subs \in SubscriptionChoices :
         userSubscription = [u \in Users |->
            IF u = "u1" THEN subs ELSE <<"rust">>]
    /\ hot \in HotChoices
    /\ last = Idle
    /\ inflight = NoRequests

NextFeed == \E u \in Callers, refresh \in BOOLEAN : getFeed(u, refresh)

SpecFeed == InitFeed /\ [][NextFeed]_vars

(***************************************************************************)
(* Persona refreshes: the answers of Reddit's saved listing and of the     *)
(* summarization service are drawn from the choices below.                 *)
(***************************************************************************)
Repeat(x, n) == [i \in 1..n |-> x]

Saved(status, posts) == [status |-> status, posts |-> posts]

SavedChoices ==
    {Saved("throw", <<>>), Saved("notok", <<>>), Saved("ok", <<>>),
     Saved("ok", <<"rust">>),
     Saved("ok", <<"politics", "rust", "rust">>),
     Saved("ok", Repeat("rust", 5) \o <<"politics">>),
     Saved("ok", Repeat("rust", MAX_ANALYZED) \o <<"politics">>),
     Saved("ok", <<"s1", "s2", "s3", "s4", "s5", "s6", "s7", "s8", "s9",
                   "s10", "s11", "s11">>)}

WeightValues ==
    {JsonNumber(n) : n \in {-500, 0, 30, 50, 100, 170}} \cup
    {JsonString(t) : t \in {"0.7", "1.7", "high", ""}} \cup
    {JsonBoolean(b) : b \in BOOLEAN} \cup {JsonNull, JsonMissing}

NameValues ==
    {JsonString(t) : t \in {"politics", "r/politics", "r/r/rust"}} \cup
    {JsonMissing}

UpstreamAffinity(name, weight) == [name |-> name, weight |-> weight]

UpstreamAffinityLists ==
    {None, Some(<<>>)} \cup
    {Some(<<UpstreamAffinity(n, w)>>) : n \in NameValues, w \in WeightValues}
    \cup
    {Some(<<UpstreamAffinity(JsonString("rust"), JsonNumber(0)),
            UpstreamAffinity(JsonString("r/politics"), JsonNumber(170))>>),
     Some(<<UpstreamAffinity(JsonString("politics"), JsonNumber(50)),
            UpstreamAffinity(JsonString("r/politics"), JsonNumber(30))>>)}

Parsed(keywords, topics, affinities, prefs) ==
    [keywords |-> keywords, topics |-> topics,
     subredditAffinities |-> affinities, contentPreferences |-> prefs]

ParsedChoices ==
    {Parsed(Some(<<"k1", "k2">>), Some(<<"t1">>), a, Some(<<"news">>)) :
        a \in UpstreamAffinityLists} \cup
    {Parsed(None, None, None, None),
     Parsed(Some(Repeat("k", MAX_KEYWORDS + 1)),
            Some(Repeat("t", MAX_TOPICS + 1)), Some(<<>>), Some(<<>>))}

Llm(kind, parsed) == [kind |-> kind, parsed |-> parsed]

LlmReplies ==
    {Llm(k, Parsed(None, None, None, None)) :
        k \in {"unconfigured", "throw", "empty", "malformed"}} \cup
    {Llm("json", parsed) : parsed \in ParsedChoices}

InitPersona ==
    /\ now = 0
    /\ curatedPost = {}
    /\ userBlockedSubreddit = {}
    /\ forYouReport = {}
    /\ cachedFeed = [u \in Users |-> None]
    /\ \E withPersona \in BOOLEAN :
         userPersona =
            {PersonaRow("u2", <<Affinity("rust", 80)>>, 4)} \cup
            IF withPersona
            THEN {PersonaRow("u1", <<Affinity("politics", 95)>>, 5)}
            ELSE {}
    /\ userSubredditStar = [u \in Users |-> <<>>]
    /\ userSubscription = [u \in Users |-> <<>>]
    /\ hot = [s \in {"politics", "rust"} |-> Failing("notok")]
    /\ last = Idle
    /\ inflight = NoRequests

NextPersona ==
    \E u \in Callers, saved \in SavedChoices, llm \in LlmReplies :
        refreshPersona(u, saved, llm)

SpecPersona == InitPersona /\ [][NextPersona]_vars

(***************************************************************************)
(* The handlers step by step.  A request occupies a slot; each action is   *)
(* one store operation of the handler (a prisma call) together with the    *)
(* code that runs up to it, so two requests of the same user interleave    *)
(* at their awaits.  A fetch to Reddit or to OpenAI touches no stored      *)
(* state and is taken together with the store operation that follows it.   *)
(* A finished request stays in its slot, with its answer, until the slot   *)
(* takes the next request.                                                 *)
(***************************************************************************)
MaxRequests == 3       \* requests handled in one explored run

free(r) == inflight[r].pc \in {"idle", "done"}

\* a request is accepted while the budget lasts, into the first free slot
accepts(r) ==
    /\ free(r)
    /\ r = "r2" => ~free("r1")
    /\ inflight["r1"].seq + inflight["r2"].seq < MaxRequests

Arrived(r, op, u) ==
    [IdleRequest EXCEPT !.op = op, !.user = u, !.seq = inflight[r].seq + 1]

Answer(req, status) == [req EXCEPT !.pc = "done", !.status = status]

\* recordAction, lines 864-871: findUnique by (userId, redditPostId)
recordActionFind(r, u, redditPostId, action) ==
    /\ accepts(r)
    /\ inflight' = [inflight EXCEPT ![r] =
            [Arrived(r, "recordAction", u) EXCEPT
                !.pc = "ra_write",
                !.redditPostId = Some(redditPostId),
                !.action = action,
                !.existing = {c \in curatedPost :
                    c.userId = u /\ c.redditPostId = redditPostId}]]
    /\ UNCHANGED <<now, store, hot, last>>

\* recordAction, lines 873-930: the by_id fetch and create, or the update of
\* the row found, then the /api/save fetch.  A create that meets a row of
\* the same (userId, redditPostId) violates the unique constraint and an
\* update of a row that is gone fails: both throw into the catch (500).
recordActionStore(r, byId, save) ==
    LET req == [inflight[r] EXCEPT !.byId = byId, !.save = save]
        u == req.user
        redditPostId == req.redditPostId[1]
        current == {c \in curatedPost :
                        c.userId = u /\ c.redditPostId = redditPostId}
        children == byIdChildren(Fullname(redditPostId))
        creates == req.existing = {} /\ byId = "ok" /\ children # {}
        throws ==
            \/ req.existing = {} /\ byId = "throw"
            \/ creates /\ current # {}
            \/ req.existing # {} /\ current = {}
        written ==
            IF creates
            THEN curatedPost \cup
                    {[userId |-> u, redditPostId |-> redditPostId,
                      subreddit |-> (CHOOSE p \in children : TRUE).subreddit,
                      action |-> ToUpperCase(req.action)]}
            ELSE IF req.existing # {}
            THEN (curatedPost \ current) \cup
                    {[c EXCEPT !.action = ToUpperCase(req.action)] :
                        c \in current}
            ELSE curatedPost
    IN  /\ inflight[r].pc = "ra_write"
        /\ byId \in (IF req.existing = {} THEN FetchOutcomes ELSE {"ok"})
        /\ save \in (IF req.action = "saved" THEN {"ok", "throw"} ELSE {"ok"})
        /\ UNCHANGED <<now, userBlockedSubreddit, forYouReport, cachedFeed,
                       userPersona, userSubredditStar, userSubscription, hot,
                       last>>
        /\ IF throws
           THEN /\ inflight' = [inflight EXCEPT ![r] = Answer(req, 500)]
                /\ UNCHANGED curatedPost
           ELSE /\ curatedPost' = written
                /\ inflight' = [inflight EXCEPT ![r] =
                        IF req.action = "saved" /\ save = "throw"
                        THEN Answer(req, 500)
                        ELSE [req EXCEPT !.pc = "ra_count"]]

\* recordAction, lines 933-938: count of the SAVED rows
recordActionCount(r) ==
    /\ inflight[r].pc = "ra_count"
    /\ inflight' = [inflight EXCEPT ![r] =
            [@ EXCEPT !.pc = "ra_invalidate",
                      !.count = savedCount(curatedPost, inflight[r].user)]]
    /\ UNCHANGED <<now, store, hot, last>>

\* recordAction, lines 940-949: cachedFeed: null, then the answer
recordActionInvalidate(r) ==
    /\ inflight[r].pc = "ra_invalidate"
    /\ cachedFeed' = invalidateFeedCache(inflight[r].user)
    /\ inflight' = [inflight EXCEPT ![r] = Answer(@, 200)]
    /\ UNCHANGED <<now, curatedPost, userBlockedSubreddit, forYouReport,
                   userPersona, userSubredditStar, userSubscription, hot, last>>

\* getFeed, lines 1515-1524: getUserFromToken reads the user row with its
\* cachedFeed; a hit answers it
getFeedUser(r, u, refresh) ==
    /\ accepts(r)
    /\ inflight' = [inflight EXCEPT ![r] =
            LET req == [Arrived(r, "getFeed", u) EXCEPT !.refresh = refresh]
            IN  IF ~refresh /\ cachedFeed[u] # None
                THEN [Answer(req, 200) EXCEPT !.cacheHit = TRUE,
                                              !.feed = cachedFeed[u]]
                ELSE [req EXCEPT !.pc = "gf_curated"]]
    /\ UNCHANGED <<now, store, hot, last>>

\* getFeed, lines 1527-1542: persona, stars, and the ids of the curated
\* posts (no step-wise handler writes persona or stars)
getFeedCurated(r) ==
    /\ inflight[r].pc = "gf_curated"
    /\ inflight' = [inflight EXCEPT ![r] =
            [@ EXCEPT !.pc = "gf_counts",
                      !.curatedIds = curatedPostIds(World, inflight[r].user)]]
    /\ UNCHANGED <<now, store, hot, last>>

\* getFeed, lines 1544-1559: subscriptions, and the groupBy over the
\* NOT_INTERESTED rows
getFeedCounts(r) ==
    /\ inflight[r].pc = "gf_counts"
    /\ inflight' = [inflight EXCEPT ![r] =
            [@ EXCEPT !.pc = "gf_blocks",
                      !.counted = {c \in curatedPost :
                            c.userId = inflight[r].user /\ c.action = "NOT_INTERESTED"}]]
    /\ UNCHANGED <<now, store, hot, last>>

\* getFeed, lines 1561-1565: the block records
getFeedBlocks(r) ==
    /\ inflight[r].pc = "gf_blocks"
    /\ inflight' = [inflight EXCEPT ![r] =
            [@ EXCEPT !.pc = "gf_fetch",
                      !.blocks = blockedRecords(World, inflight[r].user)]]
    /\ UNCHANGED <<now, store, hot, last>>

\* the store as the request has read it
readWorld(req) ==
    [World EXCEPT !.curatedPost = req.counted,
                  !.userBlockedSubreddit = req.blocks]

\* Promise.all(fetchPromises) settles once every fetch has settled: a fetch
\* whose answer is "pending" never does, and the code sets no timeout
fetchesSettled(w, u) ==
    \A entry \in Range(subredditsToFetch(w, u)) :
        w.hot[entry.name].status # "pending"

\* getFeed, lines 1646-1763: the fetches, the ranking, the cache write and
\* the answer
getFeedRespond(r) ==
    LET req == inflight[r]
        w == readWorld(req)
        response == assembleFeedWith(w, req.user, req.curatedIds)
    IN  /\ req.pc = "gf_fetch"
        /\ fetchesSettled(w, req.user)
        /\ cachedFeed' = [cachedFeed EXCEPT ![req.user] = Some(response)]
        /\ inflight' = [inflight EXCEPT ![r] =
                [Answer(req, 200) EXCEPT !.feed = Some(response)]]
        /\ UNCHANGED <<now, curatedPost, userBlockedSubreddit, forYouReport,
                       userPersona, userSubredditStar, userSubscription, hot,
                       last>>

\* generateReport, lines 1319-1325: the existing report and its age
generateReportFind(r, u, llm) ==
    /\ accepts(r)
    /\ inflight' = [inflight EXCEPT ![r] =
            [Arrived(r, "generateReport", u) EXCEPT
                !.llm = llm,
                !.pc = IF reportIsStale(u) THEN "gr_reset" ELSE "gr_saved",
                !.todo = IF reportIsStale(u)
                         THEN {"deleteMany", "updateMany"} ELSE {}]]
    /\ UNCHANGED <<now, store, hot, last>>

\* generateReport, lines 1326-1337: Promise.all of the deleteMany and the
\* updateMany, which reach the database in either order
generateReportReset(r) ==
    /\ inflight[r].pc = "gr_reset"
    /\ \E call \in inflight[r].todo :
        /\ IF call = "deleteMany"
           THEN /\ curatedPost' = deleteSkippedPosts(inflight[r].user)
                /\ UNCHANGED userBlockedSubreddit
           ELSE /\ userBlockedSubreddit' = deactivateBlocks(inflight[r].user)
                /\ UNCHANGED curatedPost
        /\ inflight' = [inflight EXCEPT ![r] =
                [@ EXCEPT !.todo = @ \ {call},
                          !.pc = IF inflight[r].todo = {call}
                                 THEN "gr_saved" ELSE "gr_reset"]]
    /\ UNCHANGED <<now, forYouReport, cachedFeed, userPersona,
                   userSubredditStar, userSubscription, hot, last>>

\* generateReport, lines 1348-1414: the SAVED rows, the 400 without any,
\* and the OpenAI call
generateReportSaved(r) ==
    /\ inflight[r].pc = "gr_saved"
    /\ inflight' = [inflight EXCEPT ![r] =
            LET req == [@ EXCEPT !.savedPosts = {c \in curatedPost :
                            c.userId = inflight[r].user /\ c.action = "SAVED"}]
                status == generateReportStatus(req.savedPosts, req.llm)
            IN  IF status # 200 THEN Answer(req, status)
                ELSE [req EXCEPT !.pc = "gr_upsert"]]
    /\ UNCHANGED <<now, store, hot, last>>

\* generateReport, lines 1418-1435: the upsert of the report
generateReportUpsert(r) ==
    /\ inflight[r].pc = "gr_upsert"
    /\ forYouReport' =
            upsertReport(inflight[r].user, Cardinality(inflight[r].savedPosts))
    /\ inflight' = [inflight EXCEPT ![r] = [@ EXCEPT !.pc = "gr_mark"]]
    /\ UNCHANGED <<now, curatedPost, userBlockedSubreddit, cachedFeed,
                   userPersona, userSubredditStar, userSubscription, hot, last>>

\* generateReport, lines 1438-1446: updateMany SAVED -> ALREADY_READ;
\* `count` is the number of rows the updateMany changed
generateReportMark(r) ==
    /\ inflight[r].pc = "gr_mark"
    /\ curatedPost' = markSavedAsRead(curatedPost, inflight[r].user)
    /\ inflight' = [inflight EXCEPT ![r] =
            [@ EXCEPT !.pc = "gr_invalidate",
                      !.count = savedCount(curatedPost, inflight[r].user)]]
    /\ UNCHANGED <<now, userBlockedSubreddit, forYouReport, cachedFeed,
                   userPersona, userSubredditStar, userSubscription, hot, last>>

\* generateReport, lines 1449-1459: cachedFeed: null, then the answer
generateReportInvalidate(r) ==
    /\ inflight[r].pc = "gr_invalidate"
    /\ cachedFeed' = invalidateFeedCache(inflight[r].user)
    /\ inflight' = [inflight EXCEPT ![r] = Answer(@, 200)]
    /\ UNCHANGED <<now, curatedPost, userBlockedSubreddit, forYouReport,
                   userPersona, userSubredditStar, userSubscription, hot, last>>

\* blockSubreddit, lines 2010-2017: findUnique by (userId, subreddit)
blockSubredditFind(r, u, subreddit, blocked) ==
    /\ accepts(r)
    /\ inflight' = [inflight EXCEPT ![r] =
            [Arrived(r, "blockSubreddit", u) EXCEPT
                !.pc = "bs_write",
                !.blocked = blocked,
                !.existing = {b \in userBlockedSubreddit :
                    b.userId = u /\ b.subreddit = subreddit}]]
    /\ UNCHANGED <<now, store, hot, last>>

\* blockSubreddit, lines 2019-2055: the update of the row found, with the
\* blockCount that was read, or the create; a create that meets a row of the
\* same (userId, subreddit) violates the unique constraint and throws (500)
blockSubredditWrite(r, subreddit) ==
    LET req == inflight[r]
        u == req.user
        current == {b \in userBlockedSubreddit :
                        b.userId = u /\ b.subreddit = subreddit}
        read == IF req.existing = {} THEN 0
                ELSE (CHOOSE b \in req.existing : TRUE).blockCount
        record ==
            IF req.existing = {}
            THEN IF req.blocked
                 THEN {[userId |-> u, subreddit |-> subreddit,
                        isActive |-> TRUE, blockCount |-> 1]}
                 ELSE {}
            ELSE IF req.blocked
            THEN {[b EXCEPT !.isActive = TRUE, !.blockCount = read + 1] :
                    b \in current}
            ELSE {[b EXCEPT !.isActive = FALSE] : b \in current}
        throws == req.existing = {} /\ req.blocked /\ current # {}
    IN  /\ req.pc = "bs_write"
        /\ UNCHANGED <<now, curatedPost, forYouReport, cachedFeed, userPersona,
                       userSubredditStar, userSubscription, hot, last>>
        /\ IF throws
           THEN /\ inflight' = [inflight EXCEPT ![r] = Answer(req, 500)]
                /\ UNCHANGED userBlockedSubreddit
           ELSE /\ userBlockedSubreddit' =
                        IF record = {} THEN userBlockedSubreddit
                        ELSE (userBlockedSubreddit \ current) \cup record
                /\ inflight' = [inflight EXCEPT ![r] =
                        [Answer(req, 200) EXCEPT
                            !.count = IF record = {} THEN 0
                                      ELSE (CHOOSE b \in record : TRUE).blockCount]]

(***************************************************************************)
(* Two requests of u1 at a time, over a small store of u1.                 *)
(***************************************************************************)
RaceActions == {"saved", "not_interested"}
RaceLlm == {"ok", "throw"}

SavedRow(u, id, subreddit) ==
    [userId |-> u, redditPostId |-> PostId(id), subreddit |-> subreddit,
     action |-> "SAVED"]

InitRace ==
    /\ now = MaxNow
    /\ curatedPost \in
        {{SavedRow("u1", "p2", "rust")},
         {SavedRow("u1", "p1", "politics"), SavedRow("u1", "p2", "rust")}}
    /\ userBlockedSubreddit \in
        {{},
         {[userId |-> "u1", subreddit |-> "politics", isActive |-> FALSE,
           blockCount |-> 1]}}
    /\ forYouReport \in
        {{}, {[userId |-> "u1", postCount |-> 1, generatedAt |-> 0]}}
    /\ cachedFeed = [u \in Users |-> None]
    /\ userPersona = {}
    /\ userSubredditStar = [u \in Users |-> <<>>]
    /\ userSubscription = [u \in Users |->
            IF u = "u1" THEN <<"politics", "rust">> ELSE <<>>]
    /\ hot = [s \in {"politics", "rust"} |->
            IF s = "politics" THEN Listing(<<Post("p1", "politics", 5)>>)
            ELSE Listing(<<Post("p2", "rust", 5)>>)]
    /\ last = Idle
    /\ inflight = NoRequests

NextRace ==
    \/ \E r \in Slots, u \in Callers, id \in RequestPostIds, a \in RaceActions :
            recordActionFind(r, u, id, a)
    \/ \E r \in Slots, byId \in FetchOutcomes, save \in {"ok", "throw"} :
            recordActionStore(r, byId, save)
    \/ \E r \in Slots : recordActionCount(r)
    \/ \E r \in Slots : recordActionInvalidate(r)
    \/ \E r \in Slots, u \in Callers, refresh \in BOOLEAN :
            getFeedUser(r, u, refresh)
    \/ \E r \in Slots : getFeedCurated(r)
    \/ \E r \in Slots : getFeedCounts(r)
    \/ \E r \in Slots : getFeedBlocks(r)
    \/ \E r \in Slots : getFeedRespond(r)
    \/ \E r \in Slots, u \in Callers, llm \in RaceLlm :
            generateReportFind(r, u, llm)
    \/ \E r \in Slots : generateReportReset(r)
    \/ \E r \in Slots : generateReportSaved(r)
    \/ \E r \in Slots : generateReportUpsert(r)
    \/ \E r \in Slots : generateReportMark(r)
    \/ \E r \in Slots : generateReportInvalidate(r)
    \/ \E r \in Slots, u \in Callers, s \in RequestSubreddits, b \in BOOLEAN :
            blockSubredditFind(r, u, s, b)
    \/ \E r \in Slots, s \in RequestSubreddits : blockSubredditWrite(r, s)

SpecRace == InitRace /\ [][NextRace]_vars

(***************************************************************************)
(* Feed assemblies against a Reddit whose answer to a hot listing can be a *)
(* listing, an error status, a rejected fetch, or nothing at all.  Every   *)
(* request that can take a step eventually takes one.                      *)
(***************************************************************************)
HotAnswers(s, id) ==
    {Listing(<<Post(id, s, 5)>>), Failing("notok"), Failing("throw"),
     Failing("pending")}

InitAssembly ==
    /\ now = MaxNow
    /\ curatedPost \in {{}, {SavedRow("u1", "p2", "rust")}}
    /\ userBlockedSubreddit = {}
    /\ forYouReport = {}
    /\ cachedFeed = [u \in Users |-> None]
    /\ userPersona = {}
    /\ userSubredditStar = [u \in Users |-> <<>>]
    /\ userSubscription = [u \in Users |->
            IF u = "u1" THEN <<"politics", "rust">> ELSE <<>>]
    /\ \E politics \in HotAnswers("politics", "p1"),
          rust \in HotAnswers("rust", "p2") :
            hot = [s \in {"politics", "rust"} |->
                    IF s = "politics" THEN politics ELSE rust]
    /\ last = Idle
    /\ inflight = NoRequests

NextAssembly ==
    \/ \E r \in Slots, u \in Callers, refresh \in BOOLEAN :
            getFeedUser(r, u, refresh)
    \/ \E r \in Slots : getFeedCurated(r)
    \/ \E r \in Slots : getFeedCounts(r)
    \/ \E r \in Slots : getFeedBlocks(r)
    \/ \E r \in Slots : getFeedRespond(r)

\* ENABLED <<getFeedRespond(r)>>_vars: the request waits on Promise.all
\* and every fetch has settled
respondEnabled(r) ==
    /\ inflight[r].pc = "gf_fetch"
    /\ fetchesSettled(readWorld(inflight[r]), inflight[r].user)

\* Node runs every continuation whose awaited promise has settled: a
\* database read returns, and Promise.all resumes once all fetches have
\* settled.  The last conjunct is WF_vars(getFeedRespond(r)), written with
\* the action's enabling condition (the step itself ends the request).
SpecAssembly ==
    /\ InitAssembly /\ [][NextAssembly]_vars
    /\ \A r \in Slots :
        /\ WF_vars(getFeedCurated(r))
        /\ WF_vars(getFeedCounts(r))
        /\ WF_vars(getFeedBlocks(r))
        /\ []<>~respondEnabled(r)

(***************************************************************************)
(* Properties of the triage recorder, the report generator and the cache.  *)
(***************************************************************************)
curatedOf(table, u) == {c \in table : c.userId = u}
blocksOf(table, u) == {b \in table : b.userId = u}
reportsOf(table, u) == {r \in table : r.userId = u}

\* the rows subredditNotInterested has inserted for the subreddit
dismissals(u, s) ==
    {c \in curatedPost :
        c.userId = u /\ c.subreddit = s /\ c.redditPostId.kind = "dismiss"}

\* C1 (as claimed): when recordAction has answered success twice in a row
\* for the same (user, postId) with two different valid actions, exactly one
\* TriageRecord exists for the pair and it carries the action of the second
\* call.
C1_RetriageLeavesOneRecord ==
    [][(/\ last.op = "recordAction" /\ last.status = 200
        /\ last'.op = "recordAction" /\ last'.status = 200
        /\ last'.user = last.user
        /\ last'.redditPostId = last.redditPostId
        /\ last'.action # last.action)
       => LET rows == {c \in curatedPost' :
                        /\ c.userId = last'.user
                        /\ c.redditPostId = last'.redditPostId[1]}
          IN  /\ Cardinality(rows) = 1
              /\ \A c \in rows : c.action = last'.action]_vars

\* C3 (as claimed): once a user has 5 subreddit-level dismissals of a
\* subreddit on record, no feed that getFeed returns to that user, refreshed
\* or not, has a post of that subreddit.
C3_DismissedSubredditAbsentFromNextFeed ==
    (last.op = "getFeed" /\ last.status = 200)
    => \A s \in RequestSubreddits :
         Cardinality(dismissals(last.user, s)) >= 5
         => \A i \in DOMAIN last.feed[1].posts :
                last.feed[1].posts[i].subreddit # s

\* C4: after recordAction or generateReport has answered success, the
\* FeedCache of the user is empty, and a getFeed that follows without
\* refresh is a cache miss: it assembles the feed from the store and caches
\* what it returns.
C4_CacheInvalidated ==
    [][/\ (last'.op \in {"recordAction", "generateReport"}
            /\ last'.status = 200)
          => cachedFeed'[last'.user] = None
       /\ (/\ last.op \in {"recordAction", "generateReport"}
           /\ last.status = 200
           /\ last'.op = "getFeed" /\ last'.user = last.user)
          => /\ ~last'.cacheHit
             /\ last'.feed = Some(assembleFeed(World, last.user))
             /\ cachedFeed'[last.user] = last'.feed]_vars

\* a request that succeeded for a user who had a cached feed
C4_Witness ==
    /\ last.op \in {"recordAction", "generateReport"}
    /\ last.status = 200
    /\ last.wasCached
    /\ cachedFeed[last.user] = None

\* C8: generateReport for a user without a SAVED record answers 400
\* (NothingToReport), leaves the ForYouReport table as it was and turns no
\* record into ALREADY_READ.
C8_NothingToReport ==
    [][(/\ last'.op = "generateReport"
        /\ savedCount(curatedPost, last'.user) = 0)
       => /\ last'.status = 400
          /\ forYouReport' = forYouReport
          /\ \A c \in curatedPost' :
                c.action = "ALREADY_READ" => c \in curatedPost]_vars

\* the rejected request of a user who has a standing report
C8_Witness ==
    /\ last.op = "generateReport"
    /\ last.status = 400
    /\ reportsOf(forYouReport, last.user) # {}
    /\ savedCount(curatedPost, last.user) = 0

\* C9: generateReport resets exactly when the standing report of the user is
\* more than 18 hours old.  With the reset, the ALREADY_READ and
\* NOT_INTERESTED records of the user are gone and none of the user's blocks
\* is active, whatever the answer; without it, blocks and records are as
\* they were.  In both cases the report is generated from the SAVED records
\* of the user, which the reset leaves in place: on success they are the
\* records turned ALREADY_READ and their number is the report's postCount.
C9_ResetBeforeLoad ==
    [][last'.op = "generateReport"
       => LET u == last'.user
              older == \E r \in forYouReport :
                          /\ r.userId = u
                          /\ (now - r.generatedAt) * HoursPerTick > 18
              saved == {c \in curatedPost : c.userId = u /\ c.action = "SAVED"}
              read == {[c EXCEPT !.action = "ALREADY_READ"] : c \in saved}
              kept == IF older THEN {} ELSE curatedOf(curatedPost, u) \ saved
          IN  /\ last'.reset = older
              /\ older => \A b \in blocksOf(userBlockedSubreddit', u) :
                              ~b.isActive
              /\ ~older => userBlockedSubreddit' = userBlockedSubreddit
              /\ curatedOf(curatedPost', u) =
                    kept \cup (IF last'.status = 200 THEN read ELSE saved)
              /\ last'.status = 200
                 => /\ saved # {}
                    /\ \A r \in reportsOf(forYouReport', u) :
                          r.postCount = Cardinality(saved)]_vars

\* a report generated after a reset that removed records and lifted a block
C9_Witness ==
    /\ last.op = "generateReport"
    /\ last.status = 200
    /\ last.reset
    /\ last.deleted > 0
    /\ last.deactivated > 0

\* C10: a generateReport that performs the 18-hour reset keeps the
\* blockCount of every block record, keeps the SAVED records of the user
\* until the report consumes them, and leaves the rows, reports and cached
\* feeds of the other users alone; every subreddit of the user that was
\* actively blocked is afterwards not hard-blocked but soft-penalized.
C10_ResetFrame ==
    [][(last'.op = "generateReport" /\ last'.reset)
       => LET u == last'.user
              counts(table) ==
                {<<b.userId, b.subreddit, b.blockCount>> : b \in table}
              others(table) == {r \in table : r.userId # u}
              saved == {c \in curatedPost : c.userId = u /\ c.action = "SAVED"}
          IN  /\ counts(userBlockedSubreddit') = counts(userBlockedSubreddit)
              /\ last'.status # 200 => saved \subseteq curatedPost'
              /\ others(curatedPost') = others(curatedPost)
              /\ others(userBlockedSubreddit') = others(userBlockedSubreddit)
              /\ others(forYouReport') = others(forYouReport)
              /\ \A v \in Users \ {u} : cachedFeed'[v] = cachedFeed[v]
              /\ UNCHANGED <<userPersona, userSubredditStar, userSubscription>>
              /\ \A b \in blocksOf(userBlockedSubreddit, u) :
                    b.isActive
                    => /\ b.subreddit \notin blockedSubreddits(World', u)
                       /\ penaltyOf(World', u, b.subreddit) < 10]_vars

\* a reset that lifted an active block while the user had records to clear
\* and a SAVED record to keep
C10_Witness ==
    /\ last.op = "generateReport"
    /\ last.reset
    /\ last.deactivated > 0
    /\ last.deleted > 0
    /\ last.status = 500
    /\ savedCount(curatedPost, last.user) > 0

(***************************************************************************)
(* Properties of one feed assembly (cache miss or refresh).                *)
(***************************************************************************)
Assembled == last.op = "getFeed" /\ last.status = 200 /\ ~last.cacheHit

FeedSubreddits == DOMAIN hot

namesOf(entries) == [i \in DOMAIN entries |-> entries[i].name]
idsOf(posts) == [i \in DOMAIN posts |-> posts[i].id]

\* a is placed no higher in s3 than in s0 (absent is lowest)
NoHigher(s3, s0, a) ==
    \/ IndexIn(s3, {a}) = 0
    \/ IndexIn(s0, {a}) # 0 /\ IndexIn(s3, {a}) >= IndexIn(s0, {a})

\* C2: in an assembled feed, a subreddit with 5 or more NOT_INTERESTED
\* records of the user is not among the subreddits fetched and no fetched
\* or returned post comes from it, whether it is starred, in the persona or
\* subscribed.
C2_HardBlockThreshold ==
    Assembled
    => \A s \in FeedSubreddits :
         Cardinality({c \in curatedPost :
            /\ c.userId = last.user
            /\ c.action = "NOT_INTERESTED"
            /\ c.subreddit = s}) >= 5
         => /\ s \notin Range(namesOf(subredditsToFetch(World, last.user)))
            /\ \A e \in Range(allPosts(World, last.user)) : e.fetchedFrom # s
            /\ \A i \in DOMAIN last.feed[1].posts :
                    last.feed[1].posts[i].subreddit # s

\* r/politics has exactly 5 NOT_INTERESTED records and no active block, is
\* starred, in the persona and subscribed, and Reddit lists a post of it
\* that the user has not triaged
C2_Witness ==
    /\ Assembled
    /\ notInterestedCount(World, last.user, "politics") = 5
    /\ ~\E b \in blockedRecords(World, last.user) : b.isActive
    /\ "politics" \in Range(starredSubreddits(World, last.user))
    /\ \E p \in persona(World, last.user) :
         \E a \in Range(p.subredditAffinities) :
            a.name = "politics" /\ a.weight = 95
    /\ "politics" \in Range(userSubscription[last.user])
    /\ PostId("p1") \notin curatedPostIds(World, last.user)
    /\ last.feed[1].posts # <<>>

\* C5: with an inactive block record of blockCount 3 for a subreddit, the
\* assembled feed places the subreddit in the list of subreddits to fetch,
\* and each post Reddit lists for it in the returned posts, no higher than
\* the assembly of the same store without that record does.
C5_PenaltyMonotonic ==
    Assembled
    => \A b \in blockedRecords(World, last.user) :
         (~b.isActive /\ b.blockCount = 3)
         => LET w0 == [World EXCEPT !.userBlockedSubreddit = @ \ {b}]
                u == last.user
            IN  /\ NoHigher(namesOf(subredditsToFetch(World, u)),
                            namesOf(subredditsToFetch(w0, u)), b.subreddit)
                /\ \A p \in Range(hot[b.subreddit].children) :
                     NoHigher(idsOf(last.feed[1].posts),
                              idsOf(assembleFeed(w0, u).posts), p.id)

\* the record moves the subreddit down the list of subreddits to fetch
C5_Witness ==
    /\ Assembled
    /\ \E b \in blockedRecords(World, last.user) :
         /\ ~b.isActive /\ b.blockCount = 3
         /\ LET w0 == [World EXCEPT !.userBlockedSubreddit = @ \ {b}]
                at3 == IndexIn(namesOf(subredditsToFetch(World, last.user)),
                               {b.subreddit})
                at0 == IndexIn(namesOf(subredditsToFetch(w0, last.user)),
                               {b.subreddit})
            IN  at0 > 0 /\ at3 > at0

\* C7: the returned posts are the ranked candidates in order, and of two
\* ranked candidates with the same raw score, one fetched from a starred
\* subreddit and the other not, the starred one comes first.
C7_StarredFirstOnEqualScore ==
    Assembled
    => LET u == last.user
           ranked == Slice(rankedPosts(World, u), 25)
           isStarred(e) == e.fetchedFrom \in Range(starredSubreddits(World, u))
       IN  /\ idsOf(last.feed[1].posts) =
                [i \in DOMAIN ranked |-> ranked[i].post.id]
           /\ \A i, j \in DOMAIN ranked :
                (/\ ranked[i].post.score = ranked[j].post.score
                 /\ isStarred(ranked[i]) /\ ~isStarred(ranked[j]))
                => i < j

\* a feed with such a pair at score 0, and one with such a pair above 0
C7_Witness ==
    /\ Assembled
    /\ LET u == last.user
           ranked == rankedPosts(World, u)
           isStarred(e) == e.fetchedFrom \in Range(starredSubreddits(World, u))
       IN  \E i, j \in DOMAIN ranked :
             /\ ranked[i].post.score = ranked[j].post.score
             /\ isStarred(ranked[i]) /\ ~isStarred(ranked[j])
             /\ ranked[i].post.score = 0

(***************************************************************************)
(* Properties of one persona refresh.                                      *)
(***************************************************************************)
Clamp01(n) == IF n < 0 THEN 0 ELSE IF n > 100 THEN 100 ELSE n

Sanitized ==
    /\ last.op = "refreshPersona"
    /\ last.status = 200
    /\ last.upstream # None

storedAffinities(u) ==
    (CHOOSE p \in persona(World, u) : TRUE).subredditAffinities

NonNumeric(v) ==
    \/ v.type = "missing"
    \/ v.type = "string" /\ ToNumber(v).nan

\* C6: after a refresh that stored the summarization service's affinities,
\* every stored weight lies in [0, 1]; where the upstream weight is a number
\* the stored weight is that number clamped to [0, 1], the bounds 0 and 1
\* included; where it is missing or non-numeric the stored weight is 0.5.
C6_WeightClampedToUnitInterval ==
    Sanitized =>
        LET up == last.upstream[1]
            stored == storedAffinities(last.user)
        IN  /\ Len(stored) = Len(up)
            /\ \A i \in DOMAIN up :
                /\ stored[i].weight \in 0..100
                /\ up[i].weight.type = "number" =>
                        stored[i].weight = Clamp01(up[i].weight.num)
                /\ NonNumeric(up[i].weight) => stored[i].weight = 50

\* the analysed sample of the most recent refresh: posts.slice(0, 30)
analysedSample == Slice(last.saved, MAX_ANALYZED)

occurrences(posts, name) == Cardinality({k \in DOMAIN posts : posts[k] = name})

MinOf(a, b) == IF a < b THEN a ELSE b

\* the stored affinities are the histogram of the analysed sample: its
\* distinct subreddits, each with weight min(1, count/5), in descending
\* order of count, the 10 most frequent at most
HistogramPersonaStored ==
    LET stored == storedAffinities(last.user)
        sample == analysedSample
        distinct == Range(sample)
    IN  /\ Len(stored) = MinOf(MAX_MOCK_AFFINITIES, Cardinality(distinct))
        /\ \A i \in DOMAIN stored :
              /\ stored[i].name \in distinct
              /\ stored[i].weight =
                    MinOf(100, occurrences(sample, stored[i].name) * 20)
        /\ \A i, j \in DOMAIN stored :
              i < j =>
                  /\ stored[i].name # stored[j].name
                  /\ occurrences(sample, stored[i].name)
                      >= occurrences(sample, stored[j].name)
        /\ \A n \in distinct :
              (\A i \in DOMAIN stored : stored[i].name # n)
              => \A i \in DOMAIN stored :
                    occurrences(sample, stored[i].name)
                      >= occurrences(sample, n)

\* C11: with the summarization service unconfigured and at least one saved
\* post fetched, refreshPersona answers 200 and the stored affinities are
\* the histogram of the first 30 posts: one entry per subreddit with weight
\* min(1, count/5), ordered by count descending, at most 10, at least one.
C11_UnconfiguredHistogramPersona ==
    (/\ last.op = "refreshPersona"
     /\ last.llm = "unconfigured"
     /\ last.saved # <<>>)
    => /\ last.status = 200
       /\ HistogramPersonaStored
       /\ Len(storedAffinities(last.user)) >= 1

\* an unconfigured refresh over more than 30 saved posts, where the
\* subreddit of the 31st post is not in the sample
C11_Witness ==
    /\ last.op = "refreshPersona"
    /\ last.llm = "unconfigured"
    /\ last.status = 200
    /\ Len(last.saved) > MAX_ANALYZED
    /\ Range(last.saved) # Range(analysedSample)
    /\ \E i \in DOMAIN storedAffinities(last.user) :
            storedAffinities(last.user)[i].weight = 100

\* C12: once saved posts were fetched, a refresh whose summarization call
\* throws, answers without content or answers malformed JSON still answers
\* 200 and stores the histogram fallback persona.
C12_LlmFailureFallsBack ==
    (/\ last.op = "refreshPersona"
     /\ last.llm \in {"throw", "empty", "malformed"}
     /\ last.saved # <<>>)
    => /\ last.status = 200
       /\ persona(World, last.user) # {}
       /\ HistogramPersonaStored

(***************************************************************************)
(* Properties of the handlers' failure paths and of the reputation rules.  *)
(***************************************************************************)
\* C13: for a user with at least one SAVED record, generateReport answers
\* 200 also when the summarization service is unconfigured, throws or
\* answers without content: the report is upserted with the number of
\* saved posts, no SAVED record is left and the feed cache is empty.
C13_ReportSurvivesLlmFailure ==
    [][(/\ last'.op = "generateReport"
        /\ last'.llm \in {"unconfigured", "empty", "throw"}
        /\ savedCount(curatedPost, last'.user) > 0)
       => /\ last'.status = 200
          /\ \E r \in reportsOf(forYouReport', last'.user) :
                /\ r.generatedAt = now
                /\ r.postCount = savedCount(curatedPost, last'.user)
          /\ savedCount(curatedPost', last'.user) = 0
          /\ cachedFeed'[last'.user] = None]_vars

\* C14: whenever recordAction answers 200 for (user, postId, action), a
\* record of (user, postId) with that action exists afterwards, also when
\* there was none before and the by_id lookup failed or found no post.
C14_SuccessMeansRecorded ==
    (last.op = "recordAction" /\ last.status = 200)
    => \E c \in curatedOf(curatedPost, last.user) :
          /\ c.redditPostId = last.redditPostId[1]
          /\ c.action = last.action

\* C15: a recordAction 'saved' whose record is written (it existed, or the
\* by_id lookup delivered the post) completes however the /api/save call
\* ends: it answers 200 with the SAVED count, the record is SAVED and the
\* feed cache is empty.
C15_MarkSavedIsBestEffort ==
    [][(/\ last'.op = "recordAction"
        /\ last'.action = "SAVED"
        /\ \E c \in curatedOf(curatedPost, last'.user) \cup
                    curatedOf(curatedPost', last'.user) :
                c.redditPostId = last'.redditPostId[1])
       => /\ last'.status = 200
          /\ \E c \in curatedOf(curatedPost', last'.user) :
                c.redditPostId = last'.redditPostId[1] /\ c.action = "SAVED"
          /\ cachedFeed'[last'.user] = None
          /\ last'.count = savedCount(curatedPost', last'.user)]_vars

SubredditNames == {"politics", "rust", "news"}

\* the decision the priority rules give for (isActive, blockCount, count):
\* 0 for a hard block, else the multiplier in tenths
ruleDecision(hasRecord, isActive, blockCount, count) ==
    IF hasRecord /\ isActive THEN 0
    ELSE IF count >= 5 THEN 0
    ELSE IF hasRecord /\ blockCount >= 3 THEN 3
    ELSE IF hasRecord /\ blockCount = 2 THEN 5
    ELSE IF hasRecord /\ blockCount = 1 THEN 7
    ELSE IF count >= 3 THEN 5
    ELSE 10

\* the decision of the priority rules for subreddit s of user u
expectedDecision(u, s) ==
    LET records == {b \in blocksOf(userBlockedSubreddit, u) : b.subreddit = s}
        count == Cardinality({c \in curatedOf(curatedPost, u) :
                    c.subreddit = s /\ c.action = "NOT_INTERESTED"})
    IN  IF records = {} THEN ruleDecision(FALSE, FALSE, 0, count)
        ELSE LET r == CHOOSE b \in records : TRUE
             IN  ruleDecision(TRUE, r.isActive, r.blockCount, count)

\* C16: in a feed assembly the reputation of every subreddit follows the
\* priority rules: active block or count >= 5 is a hard block; else an
\* inactive record gives 0.3 / 0.5 / 0.7 for blockCount >= 3 / 2 / 1, ahead
\* of the count-based penalty; else count in [3,5) gives 0.5; else 1.0.
C16_ReputationPriorityRules ==
    Assembled =>
        \A s \in SubredditNames :
            LET u == last.user
                decision == expectedDecision(u, s)
            IN  /\ (s \in blockedSubreddits(World, u)) <=> (decision = 0)
                /\ decision # 0 => penaltyOf(World, u, s) = decision

\* an assembly for a user whose inactive blockCount=2 record of r/politics
\* meets a NOT_INTERESTED count in [3,5)
C16_Witness ==
    /\ Assembled
    /\ \E b \in blocksOf(userBlockedSubreddit, last.user) :
            b.subreddit = "politics" /\ ~b.isActive /\ b.blockCount = 2
    /\ notInterestedCount(World, last.user, "politics") \in {3, 4}
    /\ penaltyOf(World, last.user, "politics") = 5

\* the rows of (u, s) in a UserBlockedSubreddit table
blockRows(table, u, s) == {b \in table : b.userId = u /\ b.subreddit = s}

\* C17: a block request creates the row with blockCount 1 and active, or
\* increments blockCount by one and sets it active; an unblock request only
\* clears the active flag, and without a row creates none and returns 0;
\* no step removes a row or lowers its blockCount.
C17_BlockCountCountsBlockRequests ==
    [][/\ (last'.op = "blockSubreddit" /\ last'.status = 200) =>
            LET u == last'.user
                s == last'.subreddit
                before == blockRows(userBlockedSubreddit, u, s)
                after == blockRows(userBlockedSubreddit', u, s)
            IN  /\ userBlockedSubreddit' \ after = userBlockedSubreddit \ before
                /\ (last'.blocked /\ before = {}) =>
                        /\ after = {[userId |-> u, subreddit |-> s,
                                     isActive |-> TRUE, blockCount |-> 1]}
                        /\ last'.count = 1
                /\ (last'.blocked /\ before # {}) =>
                        \E b \in before :
                            /\ after = {[b EXCEPT !.isActive = TRUE,
                                            !.blockCount = b.blockCount + 1]}
                            /\ last'.count = b.blockCount + 1
                /\ (~last'.blocked /\ before # {}) =>
                        \E b \in before :
                            /\ after = {[b EXCEPT !.isActive = FALSE]}
                            /\ last'.count = b.blockCount
                /\ (~last'.blocked /\ before = {}) =>
                        after = {} /\ last'.count = 0
       /\ \A b \in userBlockedSubreddit :
            \E c \in blockRows(userBlockedSubreddit', b.userId, b.subreddit) :
                c.blockCount >= b.blockCount]_vars

\* an unblock answered with the blockCount that two block requests built up
C17_Witness ==
    /\ last.op = "blockSubreddit" /\ last.status = 200
    /\ ~last.blocked /\ last.count = MaxBlockCount
    /\ \E b \in blockRows(userBlockedSubreddit, last.user, last.subreddit) :
            ~b.isActive /\ b.blockCount = MaxBlockCount

\* the NOT_INTERESTED rows of (u, s) in a CuratedPost table
notInterestedRows(table, u, s) ==
    {c \in curatedOf(table, u) : c.subreddit = s /\ c.action = "NOT_INTERESTED"}

\* C18 (as claimed): every subredditNotInterested call naming a subreddit
\* inserts one new NOT_INTERESTED row, also at the timestamp of an earlier
\* call; the count grows by one, the answer carries that count, and blocked
\* is true exactly when the count is >= 5.
C18_EveryDismissalInserts ==
    [][(last'.op = "subredditNotInterested" /\ last'.subreddit # "") =>
            LET u == last'.user
                s == last'.subreddit
                before == notInterestedRows(curatedPost, u, s)
                after == notInterestedRows(curatedPost', u, s)
            IN  /\ last'.status = 200
                /\ before \subseteq after
                /\ Cardinality(after) = Cardinality(before) + 1
                /\ last'.count = Cardinality(after)
                /\ last'.blocked <=> (Cardinality(after) >= NOT_INTERESTED_BLOCK)]_vars

\* the SAVED rows of u in a CuratedPost table
savedRows(table, u) == {c \in curatedOf(table, u) : c.action = "SAVED"}

\* C19: after a successful generateReport every row of the user that was
\* SAVED is ALREADY_READ, no SAVED row of the user is left, the user has
\* exactly one report, and its postCount is the number of rows transitioned.
C19_ReportConsumesSavedPosts ==
    [][(last'.op = "generateReport" /\ last'.status = 200) =>
            LET u == last'.user
                wasSaved == savedRows(curatedPost, u)
            IN  /\ \A c \in wasSaved :
                        /\ [c EXCEPT !.action = "ALREADY_READ"] \in curatedPost'
                        /\ c \notin curatedPost'
                /\ savedRows(curatedPost', u) = {}
                /\ Cardinality(reportsOf(forYouReport', u)) = 1
                /\ \A r \in reportsOf(forYouReport', u) :
                        /\ r.postCount = Cardinality(wasSaved)
                        /\ r.generatedAt = now']_vars

\* a successful generateReport that replaced a stale report of the user and
\* transitioned a saved post
C19_Witness ==
    /\ last.op = "generateReport" /\ last.status = 200
    /\ last.reset /\ last.count >= 1
    /\ \E r \in reportsOf(forYouReport, last.user) :
            r.generatedAt = now /\ r.postCount = last.count
    /\ \E c \in curatedOf(curatedPost, last.user) : c.action = "ALREADY_READ"

\* the group through which a candidate name enters the list: 1 starred,
\* 2 persona affinity, 3 stored subscription
candidateGroup(u, name) ==
    IF name \in Range(starredSubreddits(World, u)) THEN 1
    ELSE IF name \in Range(affinityNames(personaAffinities(World, u))) THEN 2
    ELSE 3

\* weight x penaltyMultiplier of the first affinity carrying the name
affinityKey(u, name) ==
    LET aff == personaAffinities(World, u)
        at == IndexIn([i \in DOMAIN aff |-> aff[i].name], {name})
    IN  aff[at].weight * penaltyOf(World, u, name)

\* every name the three sources offer
candidateNames(u) ==
    Range(starredSubreddits(World, u))
    \cup Range(affinityNames(personaAffinities(World, u)))
    \cup Range(userSubscription[u])

\* a comes before b inside their common group
orderedInGroup(u, group, a, b) ==
    CASE group = 1 ->
            IndexIn(starredSubreddits(World, u), {a})
                < IndexIn(starredSubreddits(World, u), {b})
      [] group = 2 -> affinityKey(u, a) >= affinityKey(u, b)
      [] OTHER ->
            IndexIn(userSubscription[u], {a})
                < IndexIn(userSubscription[u], {b})

\* C20: the candidate list of a feed assembly has no duplicate name and no
\* hard-blocked subreddit, at most 10 entries, starred subreddits first,
\* then persona affinities by descending weight x penalty, then stored
\* subscriptions, and marks an entry starred exactly when it entered
\* through the starred group.
C20_CandidateListOrder ==
    Assembled =>
        LET u == last.user
            list == subredditsToFetch(World, u)
        IN  /\ \A i, j \in DOMAIN list : list[i].name = list[j].name => i = j
            /\ \A i \in DOMAIN list :
                    /\ list[i].name \notin blockedSubreddits(World, u)
                    /\ list[i].name \in candidateNames(u)
                    /\ list[i].starred <=> (candidateGroup(u, list[i].name) = 1)
            /\ Len(list) <= MAX_SUBREDDITS
            /\ last.feed[1].meta.subredditsFetched = Len(list)
            /\ \A i, j \in DOMAIN list :
                    i < j =>
                        LET gi == candidateGroup(u, list[i].name)
                            gj == candidateGroup(u, list[j].name)
                        IN  /\ gi <= gj
                            /\ gi = gj =>
                                orderedInGroup(u, gi, list[i].name, list[j].name)
            /\ \A name \in candidateNames(u) \ blockedSubreddits(World, u) :
                    name \notin Range(namesOf(list)) =>
                        /\ Len(list) = MAX_SUBREDDITS
                        /\ candidateGroup(u, name)
                                >= candidateGroup(u, list[MAX_SUBREDDITS].name)

\* an assembly whose sources offer more than 10 unblocked names, some
\* starred, some from the persona, and one hard-blocked
C20_Witness ==
    /\ Assembled
    /\ LET u == last.user
           list == subredditsToFetch(World, u)
       IN  /\ Len(orderedSubreddits(World, u)) > MAX_SUBREDDITS
           /\ Len(list) = MAX_SUBREDDITS
           /\ list[1].starred
           /\ \E i \in DOMAIN list : candidateGroup(u, list[i].name) = 2
           /\ \E i \in DOMAIN list : candidateGroup(u, list[i].name) = 3
           /\ "politics" \in blockedSubreddits(World, u)
           /\ "politics" \in candidateNames(u)

(***************************************************************************)
(* Properties of the feed's content and of the cache.                      *)
(***************************************************************************)
\* C21 (as claimed): an assembled feed holds no NSFW-flagged post and no
\* post whose id equals the redditPostId of a TriageRecord of the user
\* after a leading t3_ is stripped from either id.
C21_FeedExcludesTriagedAndNsfw ==
    Assembled =>
        LET u == last.user
            posts == last.feed[1].posts
            triaged == {StripT3(c.redditPostId) : c \in curatedOf(curatedPost, u)}
        IN  \A i \in DOMAIN posts :
                /\ StripT3(PostId(posts[i].id)) \notin triaged
                /\ \A s \in DOMAIN hot :
                        \A c \in Range(hot[s].children) :
                            c.over_18 => c.id # posts[i].id

\* the weight of the first affinity of u's persona carrying the name
affinityWeight(u, name) ==
    LET aff == personaAffinities(World, u)
    IN  aff[IndexIn(affinityNames(aff), {name})].weight

\* C22 (as claimed): an assembled feed has at most 25 posts and at most 5
\* recommended subreddits; each recommended subreddit is a persona affinity
\* that is neither starred nor the subreddit of a returned post, and they
\* are listed in descending order of affinity weight.
C22_RecommendedByDescendingWeight ==
    Assembled =>
        LET u == last.user
            posts == last.feed[1].posts
            rec == last.feed[1].recommendedSubreddits
        IN  /\ Len(posts) <= TOP_N
            /\ Len(rec) <= MAX_RECOMMENDED
            /\ \A i \in DOMAIN rec :
                    /\ rec[i] \in Range(affinityNames(personaAffinities(World, u)))
                    /\ rec[i] \notin Range(starredSubreddits(World, u))
                    /\ \A k \in DOMAIN posts : posts[k].subreddit # rec[i]
            /\ \A i, j \in DOMAIN rec :
                    i < j => affinityWeight(u, rec[i]) >= affinityWeight(u, rec[j])

\* C23: getFeed without forceRefresh and with a snapshot answers that
\* snapshot, makes no request to Reddit and changes no stored state;
\* otherwise it assembles, and the snapshot afterwards is the response it
\* answered.
C23_CacheHitDoesNoWork ==
    [][\A u \in Callers, refresh \in BOOLEAN :
        getFeed(u, refresh) =>
            IF ~refresh /\ cachedFeed[u] # None
            THEN /\ last'.status = 200
                 /\ last'.feed = cachedFeed[u]
                 /\ last'.fetches = 0
                 /\ UNCHANGED store
            ELSE /\ last'.status = 200
                 /\ last'.feed = Some(assembleFeed(World, u))
                 /\ last'.fetches = Len(subredditsToFetch(World, u))
                 /\ cachedFeed'[u] = last'.feed]_vars

\* a cache hit answering a snapshot with posts, for a user whose assembly
\* would have fetched subreddits
C23_Witness ==
    /\ last.op = "getFeed" /\ last.status = 200 /\ last.cacheHit
    /\ last.fetches = 0
    /\ last.feed = cachedFeed[last.user]
    /\ last.feed[1].posts # <<>>
    /\ Len(subredditsToFetch(World, last.user)) > 1

\* C24 (as claimed): whenever a recordAction or generateReport request has
\* changed the triage records or the blocks of its user, the FeedCache of
\* that user is empty when the request finishes, whatever it answers.
C24_CacheEmptyOnEveryExit ==
    [][(/\ last'.op \in {"recordAction", "generateReport"}
        /\ \/ curatedOf(curatedPost', last'.user)
                    # curatedOf(curatedPost, last'.user)
           \/ blocksOf(userBlockedSubreddit', last'.user)
                    # blocksOf(userBlockedSubreddit, last'.user))
       => cachedFeed'[last'.user] = None]_vars

(***************************************************************************)
(* Properties of the stored persona.                                       *)
(***************************************************************************)
\* C28 (as claimed): every persona stored by refreshPersona has at most 10
\* keywords, at most 5 topics, every affinity weight in [0, 1], no affinity
\* name with a leading "r/", and no two affinities with the same name.
C28_StoredPersonaWellFormed ==
    (last.op = "refreshPersona" /\ last.status = 200) =>
        \A p \in persona(World, last.user) :
            LET aff == p.subredditAffinities
            IN  /\ Len(p.keywords) <= MAX_KEYWORDS
                /\ Len(p.topics) <= MAX_TOPICS
                /\ \A i \in DOMAIN aff :
                        /\ aff[i].weight \in 0..100
                        /\ aff[i].name \notin {e[1] : e \in LeadingR}
                /\ \A i, j \in DOMAIN aff : aff[i].name = aff[j].name => i = j

(***************************************************************************)
(* Properties of requests that interleave, and of termination.             *)
(***************************************************************************)
Quiescent == \A r \in Slots : free(r)

\* the rows of the post a recordAction request named
recordOf(req) ==
    {c \in curatedOf(curatedPost, req.user) :
        c.redditPostId = req.redditPostId[1]}

\* C25 (as claimed): once a recordAction and a getFeed of the same user have
\* both completed, however they interleaved, a getFeed without forceRefresh
\* that follows does not answer a feed holding the post the recordAction
\* has recorded.
C25_MissedActionDoesNotOutliveRace ==
    [][\A r \in Slots, u \in Callers :
        (/\ Quiescent
         /\ getFeedUser(r, u, FALSE)
         /\ inflight'[r].pc = "done")
        => \A a \in Slots :
            (/\ inflight[a].op = "recordAction" /\ inflight[a].user = u
             /\ inflight[a].status = 200
             /\ recordOf(inflight[a]) # {})
            => \A i \in DOMAIN inflight'[r].feed[1].posts :
                    PostId(inflight'[r].feed[1].posts[i].id)
                        # inflight[a].redditPostId[1]]_vars

\* C26 (as claimed): when two recordAction calls for the same (user, post)
\* with different actions have run, interleaved in any order, with Reddit
\* answering both, both have succeeded and exactly one TriageRecord exists
\* for the pair, carrying the action of one of the two calls.
C26_ConcurrentTriageLastWriteWins ==
    LET a == inflight["r1"]
        b == inflight["r2"]
    IN  (/\ a.op = "recordAction" /\ b.op = "recordAction"
         /\ a.pc = "done" /\ b.pc = "done"
         /\ a.seq = 1 /\ b.seq = 1
         /\ a.user = b.user /\ a.redditPostId = b.redditPostId
         /\ a.action # b.action
         /\ a.byId = "ok" /\ b.byId = "ok"
         /\ a.save = "ok" /\ b.save = "ok")
        => /\ a.status = 200 /\ b.status = 200
           /\ Cardinality(recordOf(a)) = 1
           /\ \A c \in recordOf(a) :
                c.action \in {ToUpperCase(a.action), ToUpperCase(b.action)}

\* C27 (as claimed): a feed assembly always terminates: every getFeed
\* request is eventually answered, with status 200, whatever the subreddit
\* fetches do.
C27_AssemblyTerminates ==
    \A r \in Slots :
        (inflight[r].op = "getFeed" /\ inflight[r].pc # "done")
            ~> (inflight[r].pc = "done" /\ inflight[r].status = 200)

\* C29 (as claimed): when a recordAction(saved) and a generateReport of the
\* same user have run, interleaved in any order, and the report succeeded,
\* the number of records it turned from SAVED to ALREADY_READ is the
\* postCount it stored.
C29_TransitionedEqualsPostCount ==
    \A g, a \in Slots :
        (/\ inflight[g].op = "generateReport" /\ inflight[g].pc = "done"
         /\ inflight[g].status = 200
         /\ inflight[a].op = "recordAction" /\ inflight[a].action = "saved"
         /\ inflight[a].pc = "done"
         /\ inflight[g].seq = 1 /\ inflight[a].seq = 1)
        => inflight[g].count = Cardinality(inflight[g].savedPosts)

\* the blockCount a blockSubreddit request has read
blockCountRead(req) ==
    IF req.existing = {} THEN 0
    ELSE (CHOOSE b \in req.existing : TRUE).blockCount

\* C30 (as claimed): when two block requests for the same (user, subreddit)
\* have run, interleaved in any order, both are acknowledged and the
\* stored blockCount is two more than before.
C30_NoBlockRequestLost ==
    LET a == inflight["r1"]
        b == inflight["r2"]
    IN  (/\ a.op = "blockSubreddit" /\ b.op = "blockSubreddit"
         /\ a.pc = "done" /\ b.pc = "done"
         /\ a.seq = 1 /\ b.seq = 1
         /\ a.blocked /\ b.blocked)
        => /\ a.status = 200 /\ b.status = 200
           /\ \E row \in blocksOf(userBlockedSubreddit, a.user) :
                row.blockCount =
                    MinOf(blockCountRead(a), blockCountRead(b)) + 2

====
